---- MODULE Spec2Model ----
(***************************************************************************)
(* Model of the level pipeline of db-crowns: build_levels (LevelAssigner),  *)
(* normalize_scale (ScaleNormalizer), synthesize_missing_levels             *)
(* (LevelSynthesizer) and export_pix2pix_pairs (DatasetPairExporter) over   *)
(* the tables crown_observations and crown_levels.                          *)
(*                                                                         *)
(* Altitudes are the program's floats, kept here as integers in tenths of   *)
(* a metre (4.8 m is 48), so that differences and comparisons are exact.    *)
(* The created_at column is left out: nothing reads it.                     *)
(***************************************************************************)
EXTENDS Integers, Sequences, FiniteSets, TLC

\* SQL NULL / Python None in a numeric column (obs_height, source_obs_id,
\* mapping_error); no altitude, identifier or error is negative.
NULL == -1

\* SQL NULL in roi_norm_path and in synth_method.
NoPath == <<>>
NoMethod == ""

\* ------------------------------------------------------------------ bounds
\* Most rows crown_observations ever holds.
MaxObs == 2

\* Longest list a lone call of _nearest_level is given, the altitudes it is
\* asked about and the grid values it chooses from.
MaxGridLen == 3
CallHeights == { 0, 25, 48, 53, 75, 100, 120 }
CallLevels == { 0, 50, 100 }

\* Most observations the store of SpecSynth starts from, the altitudes they
\* are taken at, and the grid the levels are built on.
MaxEvidence == 3
EvidenceHeights == { 0, 50, 100, 150 }
EvidenceGrid == <<0, 50, 100, 150>>

\* Longest side, in pixels, of a raster given to pyramid_resize, and the
\* sides of out_size.
MaxSide == 9
TargetSides == { 1, 2 }

\* Trees the annotations speak of.
Trees == {"t1", "t2"}

\* Most trees the stores of SpecPairs hold besides the store of ten trees,
\* and the tree identifiers in the order sorted() gives them.
MaxPairTrees == 3
TreeOrder == <<"t1", "t2", "t3", "t4", "t5", "t6", "t7", "t8", "t9", "ta">>

\* The observations the observation builder may add: owner tree, altitude
\* (NULL when flight metadata is missing) and whether the raw crop on disk
\* can be decoded.
ObsInputs ==
    { [tree_id |-> "t1", obs_height |-> 48,   raw_ok |-> TRUE],
      [tree_id |-> "t1", obs_height |-> 53,   raw_ok |-> TRUE],
      [tree_id |-> "t1", obs_height |-> 100,  raw_ok |-> TRUE],
      [tree_id |-> "t1", obs_height |-> NULL, raw_ok |-> TRUE],
      [tree_id |-> "t2", obs_height |-> 53,   raw_ok |-> FALSE] }

\* Altitude grids a run may be configured with (as written in the
\* configuration: unsorted, possibly empty).
Grids == { <<>>, <<100, 50>>, <<0, 50, 75, 100>> }

\* fill_only_levels: None, or a list of targets (a non-grid value, a value
\* listed twice).
NoFill == [given |-> FALSE, levels |-> <<>>]
FillOnlyChoices ==
    { NoFill, [given |-> TRUE, levels |-> <<200>>],
      [given |-> TRUE, levels |-> <<75, 75>>] }

\* only_tree_id: None (kept as the empty string, which the code treats the
\* same way), or one tree.
OnlyTreeChoices == { "", "t1" }

\* The calls of the synthesizer: the full grid with the defaults (all trees,
\* no restriction, no overwrite), and the same call with another grid, with a
\* restriction, with overwrite_existing_synth, for one tree only.
DefaultSynth ==
    [ levels_grid |-> <<0, 50, 75, 100>>, only_tree_id |-> "",
      fill_only_levels |-> NoFill, overwrite_existing_synth |-> FALSE ]
SynthCalls ==
    { [DefaultSynth EXCEPT !.levels_grid = g] : g \in Grids }
    \cup { [DefaultSynth EXCEPT !.fill_only_levels = f] : f \in FillOnlyChoices }
    \cup { [DefaultSynth EXCEPT !.fill_only_levels = f,
                                 !.overwrite_existing_synth = TRUE] :
              f \in { NoFill, [given |-> TRUE, levels |-> <<75, 75>>] } }
    \cup { [DefaultSynth EXCEPT !.only_tree_id = t] : t \in OnlyTreeChoices }

\* The calls of the exporter: the default ratios 0.8/0.1/0.1 and seed 42 with
\* every grid, and with the full grid other ratios (in thousandths), a sum
\* that is not 1, another seed, one tree only, an unknown pair_mode.
DefaultExport ==
    [ levels_grid |-> <<100, 50>>, pair_mode |-> "neighbors", train_ratio |-> 800,
      val_ratio |-> 100, test_ratio |-> 100, seed |-> 42, only_tree_id |-> "" ]
ExportCalls ==
    { [DefaultExport EXCEPT !.levels_grid = g] : g \in Grids }
    \cup { [DefaultExport EXCEPT !.train_ratio = 500, !.val_ratio = 250,
                                 !.test_ratio = 250],
           [DefaultExport EXCEPT !.train_ratio = 500, !.val_ratio = 500,
                                 !.test_ratio = 500],
           [DefaultExport EXCEPT !.seed = 7],
           [DefaultExport EXCEPT !.only_tree_id = "t1"],
           [DefaultExport EXCEPT !.pair_mode = "all"] }

\* What an operation hands back when it raises instead of returning a count.
ValueError == -1
IndexError == -2
RuntimeError == -3
OperationalError == -4

\* ----------------------------------------------------------------- helpers
Abs(x) == IF x < 0 THEN -x ELSE x

Range(s) == { s[i] : i \in 1..Len(s) }

RECURSIVE Insert(_, _)
Insert(x, s) ==
    IF s = <<>> THEN <<x>>
    ELSE IF x < Head(s) THEN <<x>> \o s
    ELSE <<Head(s)>> \o Insert(x, Tail(s))

\* Python's sorted() on a list of floats (duplicates kept).
RECURSIVE sorted(_)
sorted(s) == IF s = <<>> THEN <<>> ELSE Insert(Head(s), sorted(Tail(s)))

\* ------------------------------------------------------------------- state
VARIABLES
    crown_observations, \* table: sequence of rows in rowid order
    crown_levels,       \* table: set of rows, each with its own level_id
    roi_norm_files,     \* files under roi_norm_dir: path -> what was encoded
    dirs,               \* directories created on disk
    out_files,          \* files under out_dir: path -> what was encoded
    manifest,           \* out_dir/manifest.csv: its lines, <<>> while absent
    op,                 \* the last operation run: its arguments and outcome
    call,               \* a call of _nearest_level: its arguments and its result
    sessions            \* the writer runs in progress, each on its own connection

vars == <<crown_observations, crown_levels, roi_norm_files, dirs, out_files,
          manifest, op, call, sessions>>

\* The processes that may run a writer against the store at the same time,
\* each through its own get_connection(db_path).
Writers == {1, 2}

\* A process that has not called anything: no run, no transaction.
IdleSession ==
    [ name |-> "idle", pc |-> "idle", todo |-> <<>>, by_level |-> {},
      hit |-> {}, method |-> NoMethod, in_tx |-> FALSE, tx |-> {},
      changed |-> 0, overlapped |-> FALSE, result |-> NULL ]

\* No writer run is in progress.
NoSessions == [ p \in Writers |-> IdleSession ]

\* The outcome record of an operation that has not touched anything.
NoParts == [train |-> {}, val |-> {}, test |-> {}]
NoOp ==
    [ name |-> "init", levels |-> <<>>, fill |-> NoFill,
      result |-> 0, opened |-> FALSE, written |-> {}, parts |-> NoParts ]

\* ------------------------------------------------- build_levels (assigner)
\* The loop of _nearest_level from position i on.
RECURSIVE NearestLoop(_, _, _, _, _)
NearestLoop(obs_h, levels, i, best_level, best_dist) ==
    IF i > Len(levels) THEN best_level
    ELSE LET lv == levels[i]
             d  == Abs(obs_h - lv)
         IN  IF d < best_dist THEN NearestLoop(obs_h, levels, i + 1, lv, d)
             ELSE IF d = best_dist /\ lv < best_level
                  THEN NearestLoop(obs_h, levels, i + 1, lv, best_dist)
                  ELSE NearestLoop(obs_h, levels, i + 1, best_level, best_dist)

\* Mutant: the tie rule dropped, a later equally near level replaces the best.
RECURSIVE NearestLoopLastWins(_, _, _, _, _)
NearestLoopLastWins(obs_h, levels, i, best_level, best_dist) ==
    IF i > Len(levels) THEN best_level
    ELSE LET lv == levels[i]
             d  == Abs(obs_h - lv)
         IN  IF d <= best_dist THEN NearestLoopLastWins(obs_h, levels, i + 1, lv, d)
             ELSE NearestLoopLastWins(obs_h, levels, i + 1, best_level, best_dist)

_nearest_level_last_wins(obs_h, levels) ==
    NearestLoopLastWins(obs_h, levels, 2, levels[1], Abs(obs_h - levels[1]))

\* build_levels._nearest_level(obs_h, levels); levels is not empty.
_nearest_level(obs_h, levels) ==
    NearestLoop(obs_h, levels, 2, levels[1], Abs(obs_h - levels[1]))

\* SELECT ... FROM crown_observations WHERE obs_height IS NOT NULL.
ObsWithHeight(obs) == SelectSeq(obs, LAMBDA r : r.obs_height # NULL)

\* Position of key (tree_id, h_level) in the dict best, 0 when absent.
BestIndex(best, tree_id, h_level) ==
    LET hits == { i \in 1..Len(best) :
                    best[i].tree_id = tree_id /\ best[i].h_level = h_level }
    IN  IF hits = {} THEN 0 ELSE CHOOSE i \in hits : TRUE

\* Mutant: a later observation with an equal error replaces the candidate.
BestPutLastWins(best, r, levels_sorted) ==
    LET h_level == _nearest_level(r.obs_height, levels_sorted)
        err     == Abs(r.obs_height - h_level)
        i       == BestIndex(best, r.tree_id, h_level)
        entry   == [tree_id |-> r.tree_id, h_level |-> h_level,
                    obs_id |-> r.obs_id, err |-> err]
    IN  IF i = 0 THEN Append(best, entry)
        ELSE IF err <= best[i].err THEN [best EXCEPT ![i] = entry]
        ELSE best

\* Mutant: candidates are grouped by level alone, trees mixed.
BestPutByLevel(best, r, levels_sorted) ==
    LET h_level == _nearest_level(r.obs_height, levels_sorted)
        err     == Abs(r.obs_height - h_level)
        hits    == { i \in 1..Len(best) : best[i].h_level = h_level }
        i       == IF hits = {} THEN 0 ELSE CHOOSE j \in hits : TRUE
    IN  IF i = 0
        THEN Append(best, [tree_id |-> r.tree_id, h_level |-> h_level,
                           obs_id |-> r.obs_id, err |-> err])
        ELSE IF err < best[i].err
             THEN [best EXCEPT ![i].obs_id = r.obs_id, ![i].err = err]
             ELSE best

\* One pass of the loop over obs_rows: the dict best, kept as the sequence of
\* its items in insertion order.
BestPut(best, r, levels_sorted) ==
    LET h_level == _nearest_level(r.obs_height, levels_sorted)
        err     == Abs(r.obs_height - h_level)
        i       == BestIndex(best, r.tree_id, h_level)
        entry   == [tree_id |-> r.tree_id, h_level |-> h_level,
                    obs_id |-> r.obs_id, err |-> err]
    IN  IF i = 0 THEN Append(best, entry)
        ELSE IF err < best[i].err THEN [best EXCEPT ![i] = entry]
        ELSE best

RECURSIVE BestOf(_, _, _)
BestOf(obs_rows, levels_sorted, best) ==
    IF obs_rows = <<>> THEN best
    ELSE BestOf(Tail(obs_rows), levels_sorted,
                BestPut(best, Head(obs_rows), levels_sorted))

\* Rows of crown_levels for one (tree_id, h_level).
LevelRows(tbl, tree_id, h_level) ==
    { row \in tbl : row.tree_id = tree_id /\ row.h_level = h_level }

\* SELECT ... WHERE tree_id = ? AND h_level = ? LIMIT 1: the set holding the
\* oldest such row, empty when fetchone() gives None.
SelectLevel(tbl, tree_id, h_level) ==
    LET rows == LevelRows(tbl, tree_id, h_level)
    IN  { row \in rows : \A other \in rows : row.level_id[3] <= other.level_id[3] }

\* str(uuid.uuid4()): an identifier no row of the table has.
NewLevelId(tbl, tree_id, h_level) ==
    LET used == { row.level_id[3] : row \in LevelRows(tbl, tree_id, h_level) }
    IN  <<tree_id, h_level, CHOOSE k \in 0..Cardinality(used) : k \notin used>>

\* Mutant: the existence check skipped, every winner is inserted.
UpsertRealAlwaysInsert(acc, e) ==
    [ tbl |-> acc.tbl \cup
              { [ level_id |-> NewLevelId(acc.tbl, e.tree_id, e.h_level),
                  tree_id |-> e.tree_id, h_level |-> e.h_level,
                  source_obs_id |-> e.obs_id, data_type |-> "real",
                  mapping_error |-> e.err, roi_norm_path |-> NoPath,
                  synth_method |-> NoMethod ] },
      changed |-> acc.changed + 1,
      written |-> acc.written \cup {NewLevelId(acc.tbl, e.tree_id, e.h_level)} ]

\* Mutant: the data_type test skipped, a synth row is updated like a real one.
UpsertRealOverSynth(acc, e) ==
    LET hit == SelectLevel(acc.tbl, e.tree_id, e.h_level)
        row == CHOOSE r \in hit : TRUE
    IN  IF hit = {} THEN UpsertRealAlwaysInsert(acc, e)
        ELSE [ tbl |-> (acc.tbl \ {row}) \cup
                       { [row EXCEPT !.source_obs_id = e.obs_id,
                                     !.mapping_error = e.err] },
               changed |-> acc.changed + 1,
               written |-> acc.written \cup {row.level_id} ]

\* One pass of the loop over best.items(): SELECT, then INSERT or UPDATE.
UpsertReal(acc, e) ==
    LET hit == SelectLevel(acc.tbl, e.tree_id, e.h_level)
        row == CHOOSE r \in hit : TRUE
        id  == NewLevelId(acc.tbl, e.tree_id, e.h_level)
    IN  IF hit = {}
        THEN [ tbl |-> acc.tbl \cup
                       { [ level_id |-> id, tree_id |-> e.tree_id,
                           h_level |-> e.h_level, source_obs_id |-> e.obs_id,
                           data_type |-> "real", mapping_error |-> e.err,
                           roi_norm_path |-> NoPath, synth_method |-> NoMethod ] },
               changed |-> acc.changed + 1,
               written |-> acc.written \cup {id} ]
        ELSE IF row.data_type # "real" THEN acc
        ELSE [ tbl |-> (acc.tbl \ {row}) \cup
                       { [row EXCEPT !.source_obs_id = e.obs_id,
                                     !.mapping_error = e.err] },
               changed |-> acc.changed + 1,
               written |-> acc.written \cup {row.level_id} ]

RECURSIVE UpsertAll(_, _)
UpsertAll(best, acc) ==
    IF best = <<>> THEN acc ELSE UpsertAll(Tail(best), UpsertReal(acc, Head(best)))

\* Mutant: the empty-grid test is missing; the first use of levels[0] then
\* fails with an IndexError inside the session.
BuildLevelsRunNoGuard(levels, obs, tbl) ==
    LET obs_rows == ObsWithHeight(obs)
    IN  IF obs_rows = <<>>
        THEN [tbl |-> tbl, result |-> 0, opened |-> TRUE, written |-> {}]
        ELSE IF levels = <<>>
        THEN [tbl |-> tbl, result |-> IndexError, opened |-> TRUE, written |-> {}]
        ELSE LET acc == UpsertAll(BestOf(obs_rows, sorted(levels), <<>>),
                                  [tbl |-> tbl, changed |-> 0, written |-> {}])
             IN  [tbl |-> acc.tbl, result |-> acc.changed, opened |-> TRUE,
                  written |-> acc.written]

\* Mutant: finding no observation with an altitude is an error.
BuildLevelsRunRaisesOnNoWork(levels, obs, tbl) ==
    IF levels = <<>>
    THEN [tbl |-> tbl, result |-> ValueError, opened |-> FALSE, written |-> {}]
    ELSE LET obs_rows == ObsWithHeight(obs)
         IN  IF obs_rows = <<>>
             THEN [tbl |-> tbl, result |-> ValueError, opened |-> TRUE, written |-> {}]
             ELSE LET acc == UpsertAll(BestOf(obs_rows, sorted(levels), <<>>),
                                       [tbl |-> tbl, changed |-> 0, written |-> {}])
                  IN  [tbl |-> acc.tbl, result |-> acc.changed, opened |-> TRUE,
                       written |-> acc.written]

\* build_levels(db_path, levels) as a function of the store: the table after
\* the commit, the returned count or the error raised, whether the store was
\* opened, and the level_ids written.
BuildLevelsRun(levels, obs, tbl) ==
    IF levels = <<>>
    THEN [tbl |-> tbl, result |-> ValueError, opened |-> FALSE, written |-> {}]
    ELSE LET obs_rows == ObsWithHeight(obs)
         IN  IF obs_rows = <<>>
             THEN [tbl |-> tbl, result |-> 0, opened |-> TRUE, written |-> {}]
             ELSE LET acc == UpsertAll(BestOf(obs_rows, sorted(levels), <<>>),
                                       [tbl |-> tbl, changed |-> 0, written |-> {}])
                  IN  [tbl |-> acc.tbl, result |-> acc.changed, opened |-> TRUE,
                       written |-> acc.written]

build_levels(levels) ==
    \E run \in { BuildLevelsRun(levels, crown_observations, crown_levels) } :
        /\ crown_levels' = run.tbl
        /\ op' = [NoOp EXCEPT !.name = "build_levels", !.levels = levels,
                              !.result = run.result, !.opened = run.opened,
                              !.written = run.written]
        /\ UNCHANGED <<crown_observations, roi_norm_files, dirs, out_files, manifest, call, sessions>>

\* ------------------------------------------------------ files on disk
\* int(h) if float(h).is_integer() else h, as it is printed in a file name:
\* 5.0 gives "5", 7.5 gives "7.5".
LevelTag(h) == IF h % 10 = 0 THEN <<h \div 10>> ELSE <<h \div 10, h % 10>>

\* roi_norm_dir / f"{tree_id}_{level}.png" and f"{tree_id}_{level}_synth.png".
NormPath(tree_id, h_level) == <<tree_id, LevelTag(h_level), "real">>
SynthPath(tree_id, target) == <<tree_id, LevelTag(target), "synth">>

\* buf.tofile(path): the file is created or replaced.
WriteFile(files, path, img) ==
    { f \in files : f.path # path } \cup { [path |-> path, img |-> img] }

\* read_image_unicode(path): the decoded raster as a set of at most one
\* element, empty when imdecode gives None.
ReadImage(files, unreadable, path) ==
    { f.img : f \in { g \in files : g.path = path /\ path \notin unreadable } }

\* What may go wrong on disk during one run: nothing, cv2.imencode refusing
\* a raster ("encode"), or one normalized raster that cannot be decoded.
Faults(files) ==
    { [enc_ok |-> TRUE,  unreadable |-> {}], [enc_ok |-> FALSE, unreadable |-> {}] }
    \cup { [enc_ok |-> TRUE, unreadable |-> {f.path}] :
              f \in { g \in files : g.path[3] = "real" } }

\* What an export may meet: as Faults, or the 10 m raster of t1 decoding to
\* another size than the others (odd_size).  The field reversed says that
\* the store returns the rows of the SELECT, which has no ORDER BY, in the
\* opposite order.
ExportFaults(files) ==
    { f @@ [odd_size |-> {}, reversed |-> FALSE] : f \in Faults(files) }
    \cup { [ enc_ok |-> TRUE, unreadable |-> {}, odd_size |-> {NormPath("t1", 100)},
             reversed |-> FALSE ] }

\* ------------------------------------------ normalize_scale (normalizer)
\* SELECT ... FROM crown_levels WHERE data_type = 'real'.
RealRows(tbl) == { row \in tbl : row.data_type = "real" }

\* SELECT roi_raw_path FROM crown_observations WHERE obs_id = ? LIMIT 1.
ObsById(obs, obs_id) == { obs[i] : i \in { j \in 1..Len(obs) : obs[j].obs_id = obs_id } }

\* UPDATE crown_levels SET ... WHERE level_id = ?.
UpdateLevel(tbl, level_id, set) ==
    { IF row.level_id = level_id
      THEN [f \in DOMAIN row |-> IF f \in DOMAIN set THEN set[f] ELSE row[f]]
      ELSE row : row \in tbl }

\* if only_missing and existing_norm: continue
NormalizeSkips(lv, only_missing) == only_missing /\ lv.roi_norm_path # NoPath

\* Mutant: a source observation that is not found ends the run with an error.
NormalizeOneAbortsOnMissing(acc, lv, obs, only_missing, enc_ok) ==
    LET found == ObsById(obs, lv.source_obs_id)
        o     == CHOOSE x \in found : TRUE
    IN  IF acc.raised \/ NormalizeSkips(lv, only_missing) \/ lv.source_obs_id = NULL
        THEN acc
        ELSE IF found = {} THEN [acc EXCEPT !.raised = TRUE]
        ELSE IF ~o.raw_ok THEN acc
        ELSE IF ~enc_ok THEN [acc EXCEPT !.raised = TRUE]
        ELSE [acc EXCEPT
                !.tbl = UpdateLevel(acc.tbl, lv.level_id,
                          [roi_norm_path |-> NormPath(lv.tree_id, lv.h_level)]),
                !.files = WriteFile(acc.files, NormPath(lv.tree_id, lv.h_level),
                                    <<lv.source_obs_id>>),
                !.count = acc.count + 1,
                !.written = acc.written \cup {lv.level_id}]

\* Mutant: the UPDATE has no WHERE clause, every row of the table gets the path.
NormalizeOneUpdatesAll(acc, lv, obs, only_missing, enc_ok) ==
    LET found == ObsById(obs, lv.source_obs_id)
        o     == CHOOSE x \in found : TRUE
    IN  IF \/ acc.raised \/ NormalizeSkips(lv, only_missing)
           \/ lv.source_obs_id = NULL \/ found = {}
        THEN acc
        ELSE IF ~o.raw_ok THEN acc
        ELSE IF ~enc_ok THEN [acc EXCEPT !.raised = TRUE]
        ELSE [acc EXCEPT
                !.tbl = { [row EXCEPT !.roi_norm_path = NormPath(lv.tree_id, lv.h_level)] :
                            row \in acc.tbl },
                !.files = WriteFile(acc.files, NormPath(lv.tree_id, lv.h_level),
                                    <<lv.source_obs_id>>),
                !.count = acc.count + 1,
                !.written = acc.written \cup {lv.level_id}]

\* One pass of the loop over the real rows: skip, or resize the raw crop of
\* the source observation, save it and store its path.  A save that cannot
\* encode raises and ends the loop.
NormalizeOne(acc, lv, obs, only_missing, enc_ok) ==
    LET found == ObsById(obs, lv.source_obs_id)
        o     == CHOOSE x \in found : TRUE
    IN  IF \/ acc.raised \/ NormalizeSkips(lv, only_missing)
           \/ lv.source_obs_id = NULL \/ found = {}
        THEN acc
        ELSE IF ~o.raw_ok THEN acc
        ELSE IF ~enc_ok THEN [acc EXCEPT !.raised = TRUE]
        ELSE [acc EXCEPT
                !.tbl = UpdateLevel(acc.tbl, lv.level_id,
                          [roi_norm_path |-> NormPath(lv.tree_id, lv.h_level)]),
                !.files = WriteFile(acc.files, NormPath(lv.tree_id, lv.h_level),
                                    <<lv.source_obs_id>>),
                !.count = acc.count + 1,
                !.written = acc.written \cup {lv.level_id}]

RECURSIVE NormalizeAll(_, _, _, _, _)
NormalizeAll(levels, acc, obs, only_missing, enc_ok) ==
    IF levels = {} THEN acc
    ELSE LET lv == CHOOSE x \in levels : TRUE
         IN  NormalizeAll(levels \ {lv}, NormalizeOne(acc, lv, obs, only_missing, enc_ok),
                          obs, only_missing, enc_ok)

\* The outcome of a session: the commit at its end, or the rollback that
\* leaving the `with` block by an exception brings; files stay as written.
EndSession(tbl, acc) ==
    IF acc.raised
    THEN [tbl |-> tbl, files |-> acc.files, result |-> RuntimeError,
          opened |-> TRUE, written |-> {}]
    ELSE [tbl |-> acc.tbl, files |-> acc.files, result |-> acc.count,
          opened |-> TRUE, written |-> acc.written]

\* normalize_scale(db_path, roi_norm_dir, out_size, only_missing).
NormalizeRun(only_missing, enc_ok, obs, tbl, files) ==
    EndSession(tbl,
        NormalizeAll(RealRows(tbl),
                     [tbl |-> tbl, files |-> files, count |-> 0, written |-> {},
                      raised |-> FALSE],
                     obs, only_missing, enc_ok))

normalize_scale(only_missing, enc_ok) ==
    \E run \in { NormalizeRun(only_missing, enc_ok, crown_observations,
                            crown_levels, roi_norm_files) } :
        /\ crown_levels' = run.tbl
        /\ roi_norm_files' = run.files
        /\ dirs' = dirs \cup {"roi_norm"}
        /\ op' = [NoOp EXCEPT !.name = "normalize_scale",
                              !.result = run.result, !.opened = run.opened,
                              !.written = run.written]
        /\ UNCHANGED <<crown_observations, out_files, manifest, call, sessions>>

\* ------------------------------- synthesize_missing_levels (synthesizer)
\* The loop of _bracketing_levels over the sorted real levels.
RECURSIVE BracketLoop(_, _, _)
BracketLoop(real_levels_sorted, target, low) ==
    IF real_levels_sorted = <<>> THEN [low |-> low, high |-> NULL]
    ELSE LET lv   == Head(real_levels_sorted)
             low2 == IF lv < target THEN lv ELSE low
         IN  IF lv > target THEN [low |-> low2, high |-> lv]
             ELSE BracketLoop(Tail(real_levels_sorted), target, low2)

\* Mutant: no bracket is ever found.
_bracketing_levels_none(real_levels_sorted, target) == {}

\* Mutant: the bracket is made of the outermost levels around the target.
_bracketing_levels_outermost(real_levels_sorted, target) ==
    LET below == { x \in Range(real_levels_sorted) : x < target }
        above == { x \in Range(real_levels_sorted) : x > target }
    IN  IF below = {} \/ above = {} THEN {}
        ELSE { [ low  |-> CHOOSE x \in below : \A y \in below : x <= y,
                 high |-> CHOOSE x \in above : \A y \in above : x >= y ] }

\* _bracketing_levels(real_levels_sorted, target): the set holding the pair
\* (low, high), empty for None.
_bracketing_levels(real_levels_sorted, target) ==
    LET b == BracketLoop(real_levels_sorted, target, NULL)
    IN  IF b.low = NULL \/ b.high = NULL THEN {} ELSE {b}

\* Mutant: the first level of the list, near or not.
_nearest_level_synth_first(real_levels, target) == real_levels[1]

\* synthesize_missing._nearest_level(real_levels, target).
_nearest_level_synth(real_levels, target) ==
    NearestLoop(target, real_levels, 2, real_levels[1], Abs(target - real_levels[1]))

\* by_level = {float(r["h_level"]): r for r in rows}: one row for each level
\* of the tree (of several rows of one level, the last fetched).
ByLevel(tbl, tree_id) ==
    { row \in tbl :
        /\ row.tree_id = tree_id
        /\ \A other \in LevelRows(tbl, tree_id, row.h_level) :
               other.level_id[3] <= row.level_id[3] }

\* Mutant: every level with a raster counts as evidence, synth or real.
RealLevelsAnyType(by_level) ==
    { row.h_level : row \in { r \in by_level : r.roi_norm_path # NoPath } }

\* The levels of by_level that are real and have a normalized raster.
RealLevels(by_level) ==
    { row.h_level : row \in { r \in by_level :
                                r.data_type = "real" /\ r.roi_norm_path # NoPath } }

\* sorted() of a set of distinct levels.
RECURSIVE SortedSet(_)
SortedSet(S) ==
    IF S = {} THEN <<>>
    ELSE LET m == CHOOSE x \in S : \A y \in S : x <= y
         IN  <<m>> \o SortedSet(S \ {m})

RowAt(by_level, h_level) == CHOOSE row \in by_level : row.h_level = h_level

\* Mutant: an existing level is overwritten whenever overwrite is asked for,
\* whatever its data_type.
TargetSkippedAnyType(by_level, target, overwrite_existing_synth) ==
    /\ target \in { row.h_level : row \in by_level }
    /\ ~overwrite_existing_synth

\* Lines 144-149: the target is left alone when its level exists, unless it
\* is synth and overwrite_existing_synth is set.
TargetSkipped(by_level, target, overwrite_existing_synth) ==
    /\ target \in { row.h_level : row \in by_level }
    /\ ~(RowAt(by_level, target).data_type = "synth" /\ overwrite_existing_synth)

\* _blend(img_a, img_b, alpha) for alpha = num / den with den > 0: alpha is
\* clamped to [0, 1]; the blended raster is known by the two rasters it mixes
\* and the weight of the second.
_blend(img_a, img_b, num, den) ==
    <<img_a[1], img_b[1], IF num < 0 THEN 0 ELSE IF num > den THEN den ELSE num, den>>

\* Lines 151-177: the raster and the method of one target, as a set of at
\* most one element; empty when an evidence raster cannot be read.
SynthImage(by_level, real_levels_sorted, target, files, unreadable) ==
    LET bracket == _bracketing_levels(real_levels_sorted, target)
        b       == CHOOSE x \in bracket : TRUE
        low_img  == ReadImage(files, unreadable, RowAt(by_level, b.low).roi_norm_path)
        high_img == ReadImage(files, unreadable, RowAt(by_level, b.high).roi_norm_path)
        nearest  == _nearest_level_synth(real_levels_sorted, target)
        near_img == ReadImage(files, unreadable, RowAt(by_level, nearest).roi_norm_path)
    IN  IF bracket # {}
        THEN { [ img |-> _blend(x, y, target - b.low, b.high - b.low),
                 method |-> "linear_blend" ] : x \in low_img, y \in high_img }
        ELSE { [ img |-> x, method |-> "nearest_copy" ] : x \in near_img }

\* Mutant: the row is inserted without looking for an existing one.
SynthUpsertAlwaysInsert(tbl, tree_id, target, out_path, method) ==
    tbl \cup { [ level_id |-> NewLevelId(tbl, tree_id, target), tree_id |-> tree_id,
                 h_level |-> target, source_obs_id |-> NULL, data_type |-> "synth",
                 mapping_error |-> NULL, roi_norm_path |-> out_path,
                 synth_method |-> method ] }

\* Lines 184-227: SELECT level_id ... LIMIT 1, then INSERT or UPDATE.
SynthUpsert(tbl, tree_id, target, out_path, method) ==
    LET ex == SelectLevel(tbl, tree_id, target)
    IN  IF ex = {}
        THEN tbl \cup { [ level_id |-> NewLevelId(tbl, tree_id, target),
                          tree_id |-> tree_id, h_level |-> target,
                          source_obs_id |-> NULL, data_type |-> "synth",
                          mapping_error |-> NULL, roi_norm_path |-> out_path,
                          synth_method |-> method ] }
        ELSE UpdateLevel(tbl, (CHOOSE r \in ex : TRUE).level_id,
                         [data_type |-> "synth", roi_norm_path |-> out_path,
                          synth_method |-> method])

\* The level_id the upsert of (tree_id, target) writes.
SynthWrittenId(tbl, tree_id, target) ==
    LET ex == SelectLevel(tbl, tree_id, target)
    IN  IF ex = {} THEN NewLevelId(tbl, tree_id, target)
        ELSE (CHOOSE r \in ex : TRUE).level_id

\* One pass of the loop over targets.
SynthOne(acc, tree_id, by_level, real_levels_sorted, target, overwrite, unreadable, enc_ok) ==
    LET made == SynthImage(by_level, real_levels_sorted, target, acc.files, unreadable)
        m    == CHOOSE x \in made : TRUE
        out_path == SynthPath(tree_id, target)
    IN  IF acc.raised \/ TargetSkipped(by_level, target, overwrite) \/ made = {}
        THEN acc
        ELSE IF ~enc_ok THEN [acc EXCEPT !.raised = TRUE]
        ELSE [acc EXCEPT
                !.tbl = SynthUpsert(acc.tbl, tree_id, target, out_path, m.method),
                !.files = WriteFile(acc.files, out_path, m.img),
                !.count = acc.count + 1,
                !.written = acc.written \cup {SynthWrittenId(acc.tbl, tree_id, target)}]

RECURSIVE SynthTargets(_, _, _, _, _, _, _, _)
SynthTargets(acc, tree_id, by_level, real_levels_sorted, targets, overwrite, unreadable, enc_ok) ==
    IF targets = <<>> THEN acc
    ELSE SynthTargets(
            SynthOne(acc, tree_id, by_level, real_levels_sorted, Head(targets),
                     overwrite, unreadable, enc_ok),
            tree_id, by_level, real_levels_sorted, Tail(targets),
            overwrite, unreadable, enc_ok)

\* Mutant: fill_only_levels is not looked at, the targets are the grid.
SynthTargetListIgnoresFill(levels_grid, fill_only_levels) ==
    sorted(levels_grid)

\* Lines 94 and 138-140: the targets of a tree.
SynthTargetList(levels_grid, fill_only_levels) ==
    IF fill_only_levels.given THEN sorted(fill_only_levels.levels)
    ELSE sorted(levels_grid)

\* The body of the loop over tree_ids.
SynthTree(acc, tree_id, targets, overwrite, unreadable, enc_ok) ==
    LET by_level == ByLevel(acc.tbl, tree_id)
        real_levels_sorted == SortedSet(RealLevels(by_level))
    IN  IF real_levels_sorted = <<>> THEN acc
        ELSE SynthTargets(acc, tree_id, by_level, real_levels_sorted, targets,
                          overwrite, unreadable, enc_ok)

RECURSIVE SynthTrees(_, _, _, _, _, _)
SynthTrees(acc, tree_ids, targets, overwrite, unreadable, enc_ok) ==
    IF tree_ids = {} THEN acc
    ELSE LET tree_id == CHOOSE t \in tree_ids : TRUE
         IN  SynthTrees(SynthTree(acc, tree_id, targets, overwrite, unreadable, enc_ok),
                        tree_ids \ {tree_id}, targets, overwrite, unreadable, enc_ok)

\* [only_tree_id], or SELECT DISTINCT tree_id FROM crown_levels.
SynthTreeIds(tbl, only_tree_id) ==
    IF only_tree_id # "" THEN {only_tree_id} ELSE { row.tree_id : row \in tbl }

\* synthesize_missing_levels(db_path, levels_grid, roi_norm_dir, only_tree_id,
\* fill_only_levels, overwrite_existing_synth).
SynthRun(levels_grid, only_tree_id, fill_only_levels, overwrite, unreadable, enc_ok, tbl, files) ==
    EndSession(tbl,
        SynthTrees([tbl |-> tbl, files |-> files, count |-> 0, written |-> {},
                    raised |-> FALSE],
                   SynthTreeIds(tbl, only_tree_id),
                   SynthTargetList(levels_grid, fill_only_levels),
                   overwrite, unreadable, enc_ok))

synthesize_missing_levels(levels_grid, only_tree_id, fill_only_levels, overwrite, unreadable, enc_ok) ==
    \E run \in { SynthRun(levels_grid, only_tree_id, fill_only_levels, overwrite,
                        unreadable, enc_ok, crown_levels, roi_norm_files) } :
        /\ crown_levels' = run.tbl
        /\ roi_norm_files' = run.files
        /\ dirs' = dirs \cup {"roi_norm"}
        /\ op' = [NoOp EXCEPT !.name = "synthesize_missing_levels",
                              !.levels = levels_grid, !.fill = fill_only_levels,
                              !.result = run.result,
                              !.opened = run.opened, !.written = run.written]
        /\ UNCHANGED <<crown_observations, out_files, manifest, call, sessions>>

\* --------------------------------------- export_pix2pix_pairs (exporter)
\* _make_neighbor_pairs(levels_sorted): (levels[i], levels[i+1]) for
\* i in range(len(levels) - 1).
_make_neighbor_pairs(levels_sorted) ==
    [ i \in 1..(IF Len(levels_sorted) = 0 THEN 0 ELSE Len(levels_sorted) - 1) |->
        <<levels_sorted[i], levels_sorted[i + 1]>> ]

\* Mutant: the SELECT does not test data_type.
ExportRowsAnyType(tbl, only_tree_id) ==
    { row \in tbl : /\ row.roi_norm_path # NoPath
                    /\ (only_tree_id # "" => row.tree_id = only_tree_id) }

\* The rows the exporter selects: data_type = 'real' AND roi_norm_path IS NOT
\* NULL, of one tree when only_tree_id is given.
ExportRows(tbl, only_tree_id) ==
    { row \in tbl : /\ row.data_type = "real"
                    /\ row.roi_norm_path # NoPath
                    /\ (only_tree_id # "" => row.tree_id = only_tree_id) }

\* sorted() of a set of tree identifiers of the model.
SortedTrees(S) == SelectSeq(TreeOrder, LAMBDA t : t \in S)

\* tree_map.keys(): the trees of the fetched rows in the order they were first
\* met, the rows coming tree by tree, ascending or descending.
TreeMapKeys(rows, reversed) ==
    LET ks == SortedTrees({ r.tree_id : r \in rows })
    IN  IF reversed THEN [ i \in 1..Len(ks) |-> ks[Len(ks) + 1 - i] ] ELSE ks

\* Mutant: the keys are used in the order the rows came.
KeysAsFetched(keys) == keys

\* tree_ids = sorted(tree_map.keys())
SortedKeys(keys) == SortedTrees(Range(keys))

\* tree_map[tid].get(h): the path stored for a level (of several rows of one
\* level, the last fetched), NoPath when the tree has none.
TreeMapPath(rows, tid, h) ==
    LET hits == { r \in rows : r.tree_id = tid /\ r.h_level = h }
    IN  IF hits = {} THEN NoPath
        ELSE (CHOOSE r \in hits : \A o \in hits : o.level_id[3] <= r.level_id[3]).roi_norm_path

\* The candidate pairs of one tree, in the order of neighbor_pairs.
TreePairs(rows, tid, neighbor_pairs) ==
    LET has(i) == /\ TreeMapPath(rows, tid, neighbor_pairs[i][1]) # NoPath
                  /\ TreeMapPath(rows, tid, neighbor_pairs[i][2]) # NoPath
        item(i) == [ tree_id |-> tid, h_in |-> neighbor_pairs[i][1],
                     h_out |-> neighbor_pairs[i][2],
                     src_in |-> TreeMapPath(rows, tid, neighbor_pairs[i][1]),
                     src_out |-> TreeMapPath(rows, tid, neighbor_pairs[i][2]) ]
        RECURSIVE from(_)
        from(i) == IF i > Len(neighbor_pairs) THEN <<>>
                   ELSE (IF has(i) THEN <<item(i)>> ELSE <<>>) \o from(i + 1)
    IN  from(1)

RECURSIVE AllPairs(_, _, _)
AllPairs(rows, tree_ids, neighbor_pairs) ==
    IF tree_ids = <<>> THEN <<>>
    ELSE TreePairs(rows, Head(tree_ids), neighbor_pairs)
         \o AllPairs(rows, Tail(tree_ids), neighbor_pairs)

\* random.Random(seed).shuffle(x) of CPython moves positions in a way that
\* depends on the seed and on len(x) alone.  For the seeds and the lengths of
\* the model, the position each place of the result is taken from:
\* Random(42).shuffle([a, b, c]) gives [b, a, c].
ShuffleOrder(seed, n) ==
    IF seed = 42
    THEN (IF n = 2 THEN <<2, 1>> ELSE IF n = 3 THEN <<2, 1, 3>>
          ELSE IF n = 4 THEN <<3, 2, 4, 1>>
          ELSE IF n = 10 THEN <<8, 4, 3, 9, 6, 7, 10, 5, 1, 2>>
          ELSE [i \in 1..n |-> i])
    ELSE (IF n = 2 THEN <<1, 2>> ELSE IF n = 3 THEN <<3, 1, 2>>
          ELSE IF n = 4 THEN <<4, 2, 1, 3>>
          ELSE IF n = 10 THEN <<9, 4, 2, 5, 8, 1, 10, 7, 3, 6>>
          ELSE [i \in 1..n |-> i])

\* rng = random.Random(seed); rng.shuffle(tree_ids)
Shuffle(seed, tree_ids) ==
    [ i \in 1..Len(tree_ids) |-> tree_ids[ShuffleOrder(seed, Len(tree_ids))[i]] ]

\* Mutant: a half is rounded up.
RoundRatioHalfUp(n, ratio) ==
    IF (n * ratio) % 1000 >= 500 THEN (n * ratio) \div 1000 + 1
    ELSE (n * ratio) \div 1000

\* int(round(n * ratio)) for a ratio given in thousandths: Python rounds a
\* half to the even neighbour.
RoundRatio(n, ratio) ==
    LET q == (n * ratio) \div 1000
        r == (n * ratio) % 1000
    IN  IF r > 500 \/ (r = 500 /\ q % 2 = 1) THEN q + 1 ELSE q

\* x[a:b] of Python for 0 <= a: the elements from place a + 1 to place b, as
\* far as the list goes.
Slice(x, a, b) == { x[i] : i \in { j \in (a + 1)..b : j <= Len(x) } }

\* Lines 163-171: train_ids, val_ids and test_ids.
SplitSets(shuffled, train_ratio, val_ratio) ==
    LET n       == Len(shuffled)
        n_train == RoundRatio(n, train_ratio)
        n_val   == RoundRatio(n, val_ratio)
    IN  [ train |-> Slice(shuffled, 0, n_train),
          val   |-> Slice(shuffled, n_train, n_train + n_val),
          test  |-> Slice(shuffled, n_train + n_val, n) ]

\* Lines 163-171 and 184-189: the split of a tree.
SplitOf(tree_id, shuffled, train_ratio, val_ratio) ==
    LET n       == Len(shuffled)
        n_train == RoundRatio(n, train_ratio)
        n_val   == RoundRatio(n, val_ratio)
        pos     == CHOOSE i \in 1..n : shuffled[i] = tree_id
    IN  IF pos <= n_train THEN "train"
        ELSE IF pos <= n_train + n_val THEN "val"
        ELSE "test"

\* f"{tree_id}_{h_in}_to_{h_out}.png"
PairName(item) == <<item.tree_id, LevelTag(item.h_in), LevelTag(item.h_out)>>

\* Mutant: a raster that cannot be read ends the run with an error.
ExportOneStopsOnUnreadable(acc, item, split, files, fault) ==
    LET img_a == ReadImage(files, fault.unreadable, item.src_in)
        img_b == ReadImage(files, fault.unreadable, item.src_out)
        a == CHOOSE x \in img_a : TRUE
        b == CHOOSE x \in img_b : TRUE
        out_a == [split |-> split, side |-> "A", name |-> PairName(item)]
        out_b == [split |-> split, side |-> "B", name |-> PairName(item)]
    IN  IF acc.raised THEN acc
        ELSE IF img_a = {} \/ img_b = {} THEN [acc EXCEPT !.raised = TRUE]
        ELSE IF (item.src_in \in fault.odd_size) # (item.src_out \in fault.odd_size)
        THEN acc
        ELSE IF ~fault.enc_ok THEN [acc EXCEPT !.raised = TRUE]
        ELSE [acc EXCEPT
                !.files = WriteFile(WriteFile(acc.files, out_a, a), out_b, b),
                !.manifest = Append(acc.manifest,
                                 [ split |-> split, tree_id |-> item.tree_id,
                                   h_in |-> item.h_in, h_out |-> item.h_out,
                                   name |-> PairName(item) ]),
                !.count = acc.count + 1]

\* One pass of the loop over all_pairs: skip a pair with an unreadable side or
\* with sides of different sizes, else write A and B and a manifest row.
ExportOne(acc, item, split, files, fault) ==
    LET img_a == ReadImage(files, fault.unreadable, item.src_in)
        img_b == ReadImage(files, fault.unreadable, item.src_out)
        a == CHOOSE x \in img_a : TRUE
        b == CHOOSE x \in img_b : TRUE
        out_a == [split |-> split, side |-> "A", name |-> PairName(item)]
        out_b == [split |-> split, side |-> "B", name |-> PairName(item)]
    IN  IF acc.raised \/ img_a = {} \/ img_b = {} THEN acc
        ELSE IF (item.src_in \in fault.odd_size) # (item.src_out \in fault.odd_size)
        THEN acc
        ELSE IF ~fault.enc_ok THEN [acc EXCEPT !.raised = TRUE]
        ELSE [acc EXCEPT
                !.files = WriteFile(WriteFile(acc.files, out_a, a), out_b, b),
                !.manifest = Append(acc.manifest,
                                 [ split |-> split, tree_id |-> item.tree_id,
                                   h_in |-> item.h_in, h_out |-> item.h_out,
                                   name |-> PairName(item) ]),
                !.count = acc.count + 1]

RECURSIVE ExportAll(_, _, _, _, _, _, _)
ExportAll(acc, all_pairs, shuffled, train_ratio, val_ratio, files, fault) ==
    IF all_pairs = <<>> THEN acc
    ELSE ExportAll(ExportOne(acc, Head(all_pairs),
                             SplitOf(Head(all_pairs).tree_id, shuffled,
                                     train_ratio, val_ratio),
                             files, fault),
                   Tail(all_pairs), shuffled, train_ratio, val_ratio, files, fault)

\* The six directories of lines 85-90.
OutDirs == { "out/train/A", "out/train/B", "out/val/A", "out/val/B",
             "out/test/A", "out/test/B" }

\* Mutant: the ratios are tested after the directories are made.
ExportRunLateCheck(c, fault, tbl, files, made, out, man) ==
    IF c.train_ratio + c.val_ratio + c.test_ratio # 1000
    THEN [ dirs |-> made \cup OutDirs, files |-> out, manifest |-> man,
           result |-> ValueError, opened |-> FALSE, parts |-> NoParts ]
    ELSE [ dirs |-> made \cup OutDirs, files |-> out, manifest |-> man,
           result |-> 0, opened |-> TRUE, parts |-> NoParts ]

\* export_pix2pix_pairs(db_path, out_dir, levels_grid, pair_mode, train_ratio,
\* val_ratio, test_ratio, seed, only_tree_id): what it leaves on disk, what
\* it returns or raises, and whether it opened the store.
ExportRun(c, fault, tbl, files, made, out, man) ==
    LET rows       == ExportRows(tbl, c.only_tree_id)
        tree_ids   == SortedKeys(TreeMapKeys(rows, fault.reversed))
        all_pairs  == AllPairs(rows, tree_ids, _make_neighbor_pairs(sorted(c.levels_grid)))
        acc        == ExportAll([files |-> out, manifest |-> <<>>, count |-> 0,
                                 raised |-> FALSE],
                                all_pairs, Shuffle(c.seed, tree_ids),
                                c.train_ratio, c.val_ratio, files, fault)
        untouched  == [dirs |-> made \cup OutDirs, files |-> out, manifest |-> man,
                       parts |-> NoParts]
    IN  IF c.train_ratio + c.val_ratio + c.test_ratio # 1000
        THEN [untouched EXCEPT !.dirs = made] @@ [result |-> ValueError, opened |-> FALSE]
        ELSE IF c.pair_mode # "neighbors"
        THEN untouched @@ [result |-> ValueError, opened |-> FALSE]
        ELSE IF tree_ids = <<>> \/ all_pairs = <<>>
        THEN untouched @@ [result |-> 0, opened |-> TRUE]
        ELSE [ dirs |-> made \cup OutDirs, files |-> acc.files,
               manifest |-> <<"header">> \o acc.manifest,
               result |-> IF acc.raised THEN RuntimeError ELSE acc.count,
               opened |-> TRUE,
               parts |-> SplitSets(Shuffle(c.seed, tree_ids),
                                   c.train_ratio, c.val_ratio) ]

export_pix2pix_pairs(c, fault) ==
    \E run \in { ExportRun(c, fault, crown_levels, roi_norm_files, dirs,
                           out_files, manifest) } :
        /\ dirs' = run.dirs
        /\ out_files' = run.files
        /\ manifest' = run.manifest
        /\ op' = [NoOp EXCEPT !.name = "export_pix2pix_pairs",
                              !.levels = c.levels_grid,
                              !.result = run.result, !.opened = run.opened,
                              !.parts = run.parts]
        /\ UNCHANGED <<crown_observations, crown_levels, roi_norm_files, call, sessions>>

\* --------------------------------------------- the observation builder
\* build_observations / backfill_obs_height seen from the level pipeline: a
\* new row of crown_observations with a fresh obs_id.
AddObservation(o) ==
    /\ Len(crown_observations) < MaxObs
    /\ crown_observations' =
         Append(crown_observations,
                [ obs_id |-> Len(crown_observations) + 1, tree_id |-> o.tree_id,
                  obs_height |-> o.obs_height, raw_ok |-> o.raw_ok ])
    /\ op' = [NoOp EXCEPT !.name = "add_observation"]
    /\ UNCHANGED <<crown_levels, roi_norm_files, dirs, out_files, manifest, call, sessions>>

\* A run of build_observations and backfill_obs_height after a tree was
\* annotated on a photograph taken at 5 m and on one taken at 10 m: the two
\* observations of the tree are added, their crops readable.
AddTree(k) ==
    /\ \A i \in 1..Len(crown_observations) : crown_observations[i].tree_id # TreeOrder[k]
    /\ crown_observations' =
         crown_observations \o
           << [ obs_id |-> Len(crown_observations) + 1, tree_id |-> TreeOrder[k],
                obs_height |-> 50, raw_ok |-> TRUE ],
              [ obs_id |-> Len(crown_observations) + 2, tree_id |-> TreeOrder[k],
                obs_height |-> 100, raw_ok |-> TRUE ] >>
    /\ op' = [NoOp EXCEPT !.name = "add_observation"]
    /\ UNCHANGED <<crown_levels, roi_norm_files, dirs, out_files, manifest, call, sessions>>

\* cleanup_orphan_observations, and the DELETE of
\* rebuild_observation_for_annotation: a row of crown_observations goes.  The
\* connection never turns foreign keys on, so crown_levels keeps naming it.
\* The place of the row in the sequence stays, emptied, so that no identifier
\* is handed out twice (obs_id is a uuid4).
DeletedObservation ==
    [ obs_id |-> NULL, tree_id |-> "", obs_height |-> NULL, raw_ok |-> FALSE ]

DeleteObservation(i) ==
    /\ i \in 1..Len(crown_observations)
    /\ crown_observations[i] # DeletedObservation
    /\ crown_observations' = [crown_observations EXCEPT ![i] = DeletedObservation]
    /\ op' = [NoOp EXCEPT !.name = "delete_observation"]
    /\ UNCHANGED <<crown_levels, roi_norm_files, dirs, out_files, manifest, call, sessions>>

\* ----------------------------------------------------------- specification
\* A store freshly made by init_db, empty directories, nothing run yet.
EmptyStore ==
    /\ crown_observations = <<>>
    /\ crown_levels = {}
    /\ roi_norm_files = {}
    /\ dirs = {}
    /\ out_files = {}
    /\ manifest = <<>>
    /\ op = NoOp
    /\ sessions = NoSessions

Init ==
    /\ EmptyStore
    /\ call = [obs_h |-> 0, levels |-> <<0>>, result |-> NULL]

Next ==
    \/ \E o \in ObsInputs : AddObservation(o)
    \/ \E levels \in Grids : build_levels(levels)
    \/ \E only_missing \in BOOLEAN, enc_ok \in BOOLEAN :
            normalize_scale(only_missing, enc_ok)
    \/ \E c \in SynthCalls, fault \in Faults(roi_norm_files) :
            synthesize_missing_levels(c.levels_grid, c.only_tree_id, c.fill_only_levels,
                                      c.overwrite_existing_synth, fault.unreadable,
                                      fault.enc_ok)

Spec == Init /\ [][Next]_vars

\* The pipeline with the exporter: the exporter only reads crown_levels, so
\* the rows it can meet are those of Spec; here the stages before it run with
\* their defaults and without faults.
NextExport ==
    \/ \E o \in ObsInputs : AddObservation(o)
    \/ \E levels \in Grids : build_levels(levels)
    \/ normalize_scale(TRUE, TRUE)
    \/ \E levels_grid \in Grids :
            synthesize_missing_levels(levels_grid, "", NoFill, FALSE, {}, TRUE)
    \/ \E c \in ExportCalls, fault \in ExportFaults(roi_norm_files) :
            export_pix2pix_pairs(c, fault)

SpecExport == Init /\ [][NextExport]_vars

\* The assigner and the normalizer while observations come and go.
NextNormalize ==
    \/ \E o \in ObsInputs : AddObservation(o)
    \/ \E i \in 1..MaxObs : DeleteObservation(i)
    \/ \E levels \in Grids : build_levels(levels)
    \/ \E only_missing \in BOOLEAN, enc_ok \in BOOLEAN :
            normalize_scale(only_missing, enc_ok)

SpecNormalize == Init /\ [][NextNormalize]_vars

\* build_levels and normalize_scale with only_missing = True, every crop
\* readable and every raster saved, while observations are added.
ReadableInputs == { o \in ObsInputs : o.raw_ok }

NextRefresh ==
    \/ \E o \in ReadableInputs : AddObservation(o)
    \/ \E levels \in Grids : build_levels(levels)
    \/ normalize_scale(TRUE, TRUE)

SpecRefresh == Init /\ [][NextRefresh]_vars

\* The synthesizer on a store that the observation builder, build_levels and
\* normalize_scale have filled: at most MaxEvidence observations at distinct
\* altitudes of EvidenceHeights, of t1 with a raw crop that can be read or not
\* (a crop that cannot be read leaves a real row with no raster), or of t2
\* at 5 m.
EvidenceInputs ==
    (EvidenceHeights \X {"t1"} \X BOOLEAN) \cup { <<50, "t2", TRUE>> }

EvidenceLists ==
    UNION { { s \in [1..n -> EvidenceInputs] :
                \A i \in 1..(n - 1) : s[i][1] < s[i + 1][1] } : n \in 0..MaxEvidence }

EvidenceObs(s) ==
    [ i \in 1..Len(s) |-> [ obs_id |-> i, tree_id |-> s[i][2],
                            obs_height |-> s[i][1], raw_ok |-> s[i][3] ] ]

InitSynth ==
    \E s \in EvidenceLists :
        \E run \in { NormalizeRun(TRUE, TRUE, EvidenceObs(s),
                                  BuildLevelsRun(EvidenceGrid, EvidenceObs(s), {}).tbl,
                                  {}) } :
            /\ crown_observations = EvidenceObs(s)
            /\ crown_levels = run.tbl
            /\ roi_norm_files = run.files
            /\ dirs = {"roi_norm"}
            /\ out_files = {}
            /\ manifest = <<>>
            /\ op = [NoOp EXCEPT !.name = "normalize_scale", !.result = run.result,
                                 !.opened = run.opened, !.written = run.written]
            /\ call = [obs_h |-> 0, levels |-> <<0>>, result |-> NULL]
            /\ sessions = NoSessions

\* The calls made on that store: the grid with and without overwrite, or a
\* restriction to 20 m (above every level), to 10 m, to 7.5 m twice.
SynthEvidenceCalls ==
    { [ levels_grid |-> EvidenceGrid, only_tree_id |-> "", fill_only_levels |-> f,
        overwrite_existing_synth |-> FALSE ] :
          f \in FillOnlyChoices \cup { [given |-> TRUE, levels |-> <<100>>] } }
    \cup { [ levels_grid |-> EvidenceGrid, only_tree_id |-> "",
             fill_only_levels |-> NoFill, overwrite_existing_synth |-> TRUE ] }

\* What may go wrong during one of these runs: nothing, an encode failure,
\* or the 5 m raster of t1 not decoding.
EvidenceFaults(files) ==
    { fault \in Faults(files) : fault.unreadable \subseteq {NormPath("t1", 50)} }

NextSynth ==
    \E c \in SynthEvidenceCalls, fault \in EvidenceFaults(roi_norm_files) :
        synthesize_missing_levels(c.levels_grid, c.only_tree_id, c.fill_only_levels,
                                  c.overwrite_existing_synth, fault.unreadable,
                                  fault.enc_ok)

SpecSynth == InitSynth /\ [][NextSynth]_vars

\* The exporter on a store that the observation builder, build_levels and
\* normalize_scale have filled for at most MaxPairTrees trees: each tree has
\* a normalized real level at 5 m, at 10 m, at both or at neither.  One more
\* store has ten trees with both levels.
TenTrees == [ k \in 1..Len(TreeOrder) |-> {50, 100} ]
PairStores == [ 1..MaxPairTrees -> SUBSET {50, 100} ]

RECURSIVE PairObs(_, _, _)
PairObs(m, k, obs) ==
    IF k > Len(m) THEN obs
    ELSE PairObs(m, k + 1,
            obs \o [ i \in 1..Cardinality(m[k]) |->
                       [ obs_id |-> Len(obs) + i, tree_id |-> TreeOrder[k],
                         obs_height |-> SortedSet(m[k])[i], raw_ok |-> TRUE ] ])

PairStore(m) ==
        \E run \in { NormalizeRun(TRUE, TRUE, PairObs(m, 1, <<>>),
                         BuildLevelsRun(<<50, 100>>, PairObs(m, 1, <<>>), {}).tbl,
                         {}) } :
            /\ crown_observations = PairObs(m, 1, <<>>)
            /\ crown_levels = run.tbl
            /\ roi_norm_files = run.files
            /\ dirs = {"roi_norm"}
            /\ out_files = {}
            /\ manifest = <<>>
            /\ op = [NoOp EXCEPT !.name = "normalize_scale", !.result = run.result,
                                 !.opened = run.opened, !.written = run.written]
            /\ call = [obs_h |-> 0, levels |-> <<0>>, result |-> NULL]
            /\ sessions = NoSessions

InitPairs == \E m \in PairStores \cup { TenTrees } : PairStore(m)

\* The calls made on that store: the grid [5, 10], the ratios 0.8/0.1/0.1,
\* 0.5/0.25/0.25 and 0.5/0.5/0 (in thousandths), the seeds 42 and 7.
PairCalls ==
    { [ DefaultExport EXCEPT !.levels_grid = <<50, 100>>, !.train_ratio = r[1],
                             !.val_ratio = r[2], !.test_ratio = r[3], !.seed = sd ] :
        r \in { <<800, 100, 100>>, <<500, 250, 250>>, <<500, 500, 0>> },
        sd \in { 42, 7 } }

\* Every raster is read and saved; the rows come in either order; or the
\* 5 m raster of t1 cannot be decoded; or the 10 m raster of t2 has another
\* size than the rest.
NoExportFault ==
    [enc_ok |-> TRUE, unreadable |-> {}, odd_size |-> {}, reversed |-> FALSE]
RowOrders == { NoExportFault, [NoExportFault EXCEPT !.reversed = TRUE] }
PairFaults ==
    { NoExportFault, [NoExportFault EXCEPT !.unreadable = {NormPath("t1", 50)}],
      [NoExportFault EXCEPT !.odd_size = {NormPath("t2", 100)}] }

NextPairs ==
    \E c \in PairCalls, fault \in RowOrders : export_pix2pix_pairs(c, fault)

SpecPairs == InitPairs /\ [][NextPairs]_vars

\* The exporter on the stores of at most MaxPairTrees trees, some rasters
\* failing, with the ratios 0.5/0.25/0.25 and either seed.
InitSkip == \E m \in PairStores : PairStore(m)

SkipCalls == { c \in PairCalls : c.train_ratio = 500 /\ c.val_ratio = 250 }

NextSkip ==
    \E c \in SkipCalls, fault \in PairFaults : export_pix2pix_pairs(c, fault)

SpecSkip == InitSkip /\ [][NextSkip]_vars

\* Exports into one out_dir with the default ratios and seed while trees
\* arrive: at most MaxPairTrees trees, in any order, each built and
\* normalized on the grid [5, 10] at some time after it arrived.
NextReexport ==
    \/ \E k \in 1..MaxPairTrees : AddTree(k)
    \/ build_levels(<<50, 100>>)
    \/ normalize_scale(TRUE, TRUE)
    \/ export_pix2pix_pairs(DefaultExport, NoExportFault)

SpecReexport == Init /\ [][NextReexport]_vars

\* The synthesizer and the exporter, every raster read and saved, on the
\* stores of SpecSynth: exports on the grid of the levels and on the grid
\* [0, 10], of all trees or of t1.
EndpointCalls ==
    { [DefaultExport EXCEPT !.levels_grid = g, !.only_tree_id = t] :
        g \in { EvidenceGrid, <<0, 100>> }, t \in OnlyTreeChoices }

NextEndpoints ==
    \/ \E c \in SynthEvidenceCalls :
            synthesize_missing_levels(c.levels_grid, c.only_tree_id, c.fill_only_levels,
                                      c.overwrite_existing_synth, {}, TRUE)
    \/ \E c \in EndpointCalls : export_pix2pix_pairs(c, NoExportFault)

SpecEndpoints == InitSynth /\ [][NextEndpoints]_vars

\* _nearest_level on its own: any altitude of CallHeights against any
\* non-empty list of at most MaxGridLen grid values, in any order.
CallLists ==
    UNION { [1..n -> CallLevels] : n \in 1..MaxGridLen }

InitNearest ==
    /\ EmptyStore
    /\ call \in [obs_h : CallHeights, levels : CallLists, result : {NULL}]

nearest_level_call ==
    /\ call.result = NULL
    /\ call' = [call EXCEPT !.result = _nearest_level(call.obs_h, call.levels)]
    /\ UNCHANGED <<crown_observations, crown_levels, roi_norm_files, dirs,
                   out_files, manifest, op, sessions>>

NextNearest == nearest_level_call

SpecNearest == InitNearest /\ [][NextNearest]_vars

\* pyramid_resize(img, out_size) step by step; call holds the shape of tmp
\* (h rows, w columns), the target size and the place in the function.
InitResize ==
    /\ EmptyStore
    /\ call \in [ h : 1..MaxSide, w : 1..MaxSide, target_h : TargetSides,
                  target_w : TargetSides, pc : {"while"} ]

\* while tmp.shape[0] > target_h * 2 and tmp.shape[1] > target_w * 2
WhileCondition == call.h > call.target_h * 2 /\ call.w > call.target_w * 2

\* tmp = cv2.pyrDown(tmp): each side n becomes (n + 1) // 2.
pyrDown ==
    /\ call.pc = "while" /\ WhileCondition
    /\ call' = [call EXCEPT !.h = (call.h + 1) \div 2, !.w = (call.w + 1) \div 2]
    /\ UNCHANGED <<crown_observations, crown_levels, roi_norm_files, dirs,
                   out_files, manifest, op, sessions>>

\* The loop ends: tmp goes to cv2.resize as it is.
LoopExit ==
    /\ call.pc = "while" /\ ~WhileCondition
    /\ call' = [call EXCEPT !.pc = "resize"]
    /\ UNCHANGED <<crown_observations, crown_levels, roi_norm_files, dirs,
                   out_files, manifest, op, sessions>>

\* norm = cv2.resize(tmp, (target_w, target_h), interpolation=cv2.INTER_AREA)
resize ==
    /\ call.pc = "resize"
    /\ call' = [call EXCEPT !.h = call.target_h, !.w = call.target_w, !.pc = "return"]
    /\ UNCHANGED <<crown_observations, crown_levels, roi_norm_files, dirs,
                   out_files, manifest, op, sessions>>

NextResize == pyrDown \/ LoopExit \/ resize

SpecResize == InitResize /\ [][NextResize]_vars

\* ------------------------------------------------ two writers, one store
\* build_levels and synthesize_missing_levels statement by statement, run by
\* two processes on the same database file. sessions[p] holds the run of
\* process p: the function it is in (name), where it stands (pc), the items
\* its loop has left (todo), the row its last SELECT fetched (hit), and its
\* open transaction (in_tx, with tx the table as the transaction sees it).

\* The grid both runs are configured with, and the tree the synthesizer is
\* restricted to.
WriterGrid == <<100, 50>>
WriterTree == "t1"

\* The observations of the tree when the runs start: altitudes of at most
\* MaxObs readable crops.
WriterHeights == { 48, 53, 100 }
WriterLists == UNION { [1..n -> WriterHeights] : n \in 1..MaxObs }
WriterObs(s) ==
    [ i \in 1..Len(s) |-> [ obs_id |-> i, tree_id |-> WriterTree,
                            obs_height |-> s[i], raw_ok |-> TRUE ] ]

\* The store when the runs start: the levels were built and normalized,
\* one run after the other, when only the first k observations were there.
InitWriters ==
    \E s \in WriterLists : \E k \in 0..Len(s) :
        \E run \in { NormalizeRun(TRUE, TRUE, WriterObs(s),
                         BuildLevelsRun(WriterGrid, SubSeq(WriterObs(s), 1, k), {}).tbl,
                         {}) } :
            /\ crown_observations = WriterObs(s)
            /\ crown_levels = run.tbl
            /\ roi_norm_files = run.files
            /\ dirs = {"roi_norm"}
            /\ out_files = {}
            /\ manifest = <<>>
            /\ op = [NoOp EXCEPT !.name = "normalize_scale", !.result = run.result,
                                 !.opened = run.opened, !.written = run.written]
            /\ call = [obs_h |-> 0, levels |-> <<0>>, result |-> NULL]
            /\ sessions = NoSessions

\* What a statement of process p reads: its own uncommitted changes once it
\* has written, the committed table before that.
View(p) == IF sessions[p].in_tx THEN sessions[p].tx ELSE crown_levels

\* No other process holds the write lock of the database file.
LockFree(p) == \A q \in Writers \ {p} : ~sessions[q].in_tx

\* Another process is in the middle of a run.
Overlaps(p) == \E q \in Writers \ {p} : sessions[q].pc \notin {"idle", "done"}

\* INSERT INTO crown_levels: the table takes the row whatever rows it holds.
InsertLevel(tbl, row) == tbl \cup {row}

\* build_levels up to the loop over best.items(): the observations are read
\* and the winners computed.
BeginBuild(p) ==
    /\ sessions[p].pc = "idle"
    /\ LET obs_rows == ObsWithHeight(crown_observations)
       IN  sessions' = [sessions EXCEPT ![p] =
                [IdleSession EXCEPT
                    !.name = "build_levels",
                    !.pc = IF obs_rows = <<>> THEN "done" ELSE "select",
                    !.todo = BestOf(obs_rows, sorted(WriterGrid), <<>>),
                    !.overlapped = Overlaps(p),
                    !.result = IF obs_rows = <<>> THEN 0 ELSE NULL]]
    /\ UNCHANGED <<crown_observations, crown_levels, roi_norm_files, dirs,
                   out_files, manifest, op, call>>

\* Lines 98-108: the existence check of the next winner.
SelectReal(p) ==
    /\ sessions[p].name = "build_levels"
    /\ sessions[p].pc = "select"
    /\ sessions[p].todo # <<>>
    /\ LET e == Head(sessions[p].todo)
       IN  sessions' = [sessions EXCEPT
                ![p].hit = SelectLevel(View(p), e.tree_id, e.h_level),
                ![p].pc = "write"]
    /\ UNCHANGED <<crown_observations, crown_levels, roi_norm_files, dirs,
                   out_files, manifest, op, call>>

\* The fetched row makes build_levels write: there is none, or it is real.
WritesReal(hit) == \A row \in hit : row.data_type = "real"

\* Mutant: the fetched row is not looked at, the winner is inserted.
RealWriteAlwaysInserts(tbl, e, hit) ==
    InsertLevel(tbl, [ level_id |-> NewLevelId(tbl, e.tree_id, e.h_level),
                       tree_id |-> e.tree_id, h_level |-> e.h_level,
                       source_obs_id |-> e.obs_id, data_type |-> "real",
                       mapping_error |-> e.err, roi_norm_path |-> NoPath,
                       synth_method |-> NoMethod ])

\* Lines 110-136: INSERT when the check fetched nothing, no statement when it
\* fetched a synth row, UPDATE ... WHERE level_id = ? otherwise.
RealWrite(tbl, e, hit) ==
    IF hit = {}
    THEN InsertLevel(tbl, [ level_id |-> NewLevelId(tbl, e.tree_id, e.h_level),
                            tree_id |-> e.tree_id, h_level |-> e.h_level,
                            source_obs_id |-> e.obs_id, data_type |-> "real",
                            mapping_error |-> e.err, roi_norm_path |-> NoPath,
                            synth_method |-> NoMethod ])
    ELSE IF ~WritesReal(hit) THEN tbl
    ELSE UpdateLevel(tbl, (CHOOSE row \in hit : TRUE).level_id,
                     [source_obs_id |-> e.obs_id, mapping_error |-> e.err])

\* The statement after the check; a writing statement opens the transaction
\* of the process and needs the write lock.
WriteReal(p) ==
    /\ sessions[p].name = "build_levels"
    /\ sessions[p].pc = "write"
    /\ WritesReal(sessions[p].hit) => LockFree(p)
    /\ LET run    == sessions[p]
           writes == WritesReal(run.hit)
       IN  sessions' = [sessions EXCEPT
                ![p].tx = IF writes \/ run.in_tx
                          THEN RealWrite(View(p), Head(run.todo), run.hit)
                          ELSE {},
                ![p].in_tx = writes \/ run.in_tx,
                ![p].changed = IF writes THEN run.changed + 1 ELSE run.changed,
                ![p].todo = Tail(run.todo),
                ![p].hit = {},
                ![p].pc = "select"]
    /\ UNCHANGED <<crown_observations, crown_levels, roi_norm_files, dirs,
                   out_files, manifest, op, call>>

\* synthesize_missing_levels(db_path, WriterGrid, roi_norm_dir, WriterTree)
\* up to the loop over targets: the rows of the tree are read.
BeginSynth(p) ==
    /\ sessions[p].pc = "idle"
    /\ LET by_level == ByLevel(View(p), WriterTree)
       IN  sessions' = [sessions EXCEPT ![p] =
                [IdleSession EXCEPT
                    !.name = "synthesize_missing_levels",
                    !.pc = "select",
                    !.by_level = by_level,
                    !.todo = IF RealLevels(by_level) = {} THEN <<>>
                             ELSE SynthTargetList(WriterGrid, NoFill),
                    !.overlapped = Overlaps(p)]]
    /\ dirs' = dirs \cup {"roi_norm"}
    /\ UNCHANGED <<crown_observations, crown_levels, roi_norm_files,
                   out_files, manifest, op, call>>

\* Lines 142-194 for the next target: it is passed over, or its raster is
\* made and saved and the existence check is run.
SelectSynth(p) ==
    /\ sessions[p].name = "synthesize_missing_levels"
    /\ sessions[p].pc = "select"
    /\ sessions[p].todo # <<>>
    /\ LET run    == sessions[p]
           target == Head(run.todo)
           made   == SynthImage(run.by_level, SortedSet(RealLevels(run.by_level)),
                                target, roi_norm_files, {})
           m      == CHOOSE x \in made : TRUE
       IN  IF TargetSkipped(run.by_level, target, FALSE) \/ made = {}
           THEN /\ sessions' = [sessions EXCEPT ![p].todo = Tail(run.todo)]
                /\ UNCHANGED roi_norm_files
           ELSE /\ sessions' = [sessions EXCEPT
                        ![p].hit = SelectLevel(View(p), WriterTree, target),
                        ![p].method = m.method,
                        ![p].pc = "write"]
                /\ roi_norm_files' =
                        WriteFile(roi_norm_files, SynthPath(WriterTree, target), m.img)
    /\ UNCHANGED <<crown_observations, crown_levels, dirs, out_files, manifest,
                   op, call>>

\* Lines 196-227: INSERT when the check fetched nothing, UPDATE ... WHERE
\* level_id = ? otherwise.
SynthWrite(tbl, tree_id, target, out_path, method, ex) ==
    IF ex = {}
    THEN InsertLevel(tbl, [ level_id |-> NewLevelId(tbl, tree_id, target),
                            tree_id |-> tree_id, h_level |-> target,
                            source_obs_id |-> NULL, data_type |-> "synth",
                            mapping_error |-> NULL, roi_norm_path |-> out_path,
                            synth_method |-> method ])
    ELSE UpdateLevel(tbl, (CHOOSE row \in ex : TRUE).level_id,
                     [data_type |-> "synth", roi_norm_path |-> out_path,
                      synth_method |-> method])

WriteSynth(p) ==
    /\ sessions[p].name = "synthesize_missing_levels"
    /\ sessions[p].pc = "write"
    /\ LockFree(p)
    /\ LET run    == sessions[p]
           target == Head(run.todo)
       IN  sessions' = [sessions EXCEPT
                ![p].tx = SynthWrite(View(p), WriterTree, target,
                                     SynthPath(WriterTree, target), run.method, run.hit),
                ![p].in_tx = TRUE,
                ![p].changed = run.changed + 1,
                ![p].todo = Tail(run.todo),
                ![p].hit = {},
                ![p].method = NoMethod,
                ![p].pc = "select"]
    /\ UNCHANGED <<crown_observations, crown_levels, roi_norm_files, dirs,
                   out_files, manifest, op, call>>

\* conn.commit() after the loop: the changes of the run become the table and
\* the write lock is given back.
Commit(p) ==
    /\ sessions[p].pc = "select"
    /\ sessions[p].todo = <<>>
    /\ crown_levels' = View(p)
    /\ sessions' = [sessions EXCEPT
            ![p].pc = "done", ![p].in_tx = FALSE, ![p].tx = {},
            ![p].result = sessions[p].changed]
    /\ UNCHANGED <<crown_observations, roi_norm_files, dirs, out_files, manifest,
                   op, call>>

\* A writing statement that waited for the write lock in vain: sqlite3 raises
\* OperationalError and the session ends without a commit.
Busy(p) ==
    /\ sessions[p].pc = "write"
    /\ sessions[p].name = "build_levels" => WritesReal(sessions[p].hit)
    /\ ~LockFree(p)
    /\ sessions' = [sessions EXCEPT
            ![p].pc = "done", ![p].hit = {}, ![p].method = NoMethod,
            ![p].result = OperationalError]
    /\ UNCHANGED <<crown_observations, crown_levels, roi_norm_files, dirs,
                   out_files, manifest, op, call>>

NextWriters ==
    \E p \in Writers :
        \/ BeginBuild(p)
        \/ SelectReal(p)
        \/ WriteReal(p)
        \/ BeginSynth(p)
        \/ SelectSynth(p)
        \/ WriteSynth(p)
        \/ Commit(p)
        \/ Busy(p)

SpecWriters == InitWriters /\ [][NextWriters]_vars

\* ------------------------------------------------------------------ claims
\* The rows build_levels or the synthesizer wrote in the last run.
Written == { row \in crown_levels : row.level_id \in op.written }

\* The observation a row names as its source, as a set of at most one.
SourceOf(row) == ObsById(crown_observations, row.source_obs_id)

\* C1: at most one LevelRecord exists for each (tree_id, h_level), after any
\* sequence of build_levels and synthesize_missing_levels runs (with
\* normalize_scale runs between them) from an empty store.
C1_OneRecordPerCell ==
    \A a, b \in crown_levels :
        (a.tree_id = b.tree_id /\ a.h_level = b.h_level) => a = b

\* C1 witness: build_levels has just written a row that already carries a
\* normalized raster, so it met an existing row of its cell and updated it.
C1_Witness ==
    /\ op.name = "build_levels"
    /\ \E row \in Written : row.roi_norm_path # NoPath

\* C2: a real row has no synth_method, and a synth row has neither a
\* source_obs_id nor a mapping_error.
C2_TypeFields ==
    \A row \in crown_levels :
        /\ row.data_type = "real" => row.synth_method = NoMethod
        /\ row.data_type = "synth" =>
               row.source_obs_id = NULL /\ row.mapping_error = NULL

\* C2 witness: the synthesizer went through one target twice, the second
\* time by its UPDATE path, beside a real row that carries a source_obs_id.
C2_Witness ==
    /\ op.name = "synthesize_missing_levels"
    /\ op.fill.levels = <<75, 75>>
    /\ op.result = 2
    /\ \E row \in crown_levels : row.data_type = "real" /\ row.source_obs_id # NULL

\* C3 as claimed: every row written by build_levels or by the synthesizer has
\* an h_level of the grid of that run, restriction or not.
C3_WrittenInGrid ==
    op.name \in {"build_levels", "synthesize_missing_levels"} =>
        \A row \in Written : row.h_level \in Range(op.levels)

\* C3 as amended: build_levels writes grid levels only; the synthesizer
\* writes levels of its target list only, which is the grid when no
\* fill_only_levels is given and fill_only_levels otherwise.
C3_WrittenInTargets ==
    /\ op.name = "build_levels" =>
           \A row \in Written : row.h_level \in Range(op.levels)
    /\ op.name = "synthesize_missing_levels" =>
           \A row \in Written :
               row.h_level \in Range(IF op.fill.given THEN op.fill.levels
                                     ELSE op.levels)

\* C3 witness: a restricted run wrote a row at 20 m, which is no grid level.
C3_Witness ==
    /\ op.name = "synthesize_missing_levels"
    /\ op.fill.given
    /\ \E row \in Written : row.h_level = 200 /\ row.h_level \notin Range(op.levels)

\* C4: every row build_levels writes names an observation of the row's own
\* tree, and its mapping_error is the distance of that observation's altitude
\* from the row's level.
C4_SourceOfSameTree ==
    op.name = "build_levels" =>
        \A row \in Written :
            \E o \in SourceOf(row) :
                /\ o.tree_id = row.tree_id
                /\ o.obs_height # NULL
                /\ row.mapping_error = Abs(o.obs_height - row.h_level)

\* C4 witness: one run wrote the same level for two trees.
C4_Witness ==
    /\ op.name = "build_levels"
    /\ \E a, b \in Written : a.tree_id # b.tree_id /\ a.h_level = b.h_level

\* C5: a build_levels run leaves every synth row as it was, field for field.
C5_SynthUntouched ==
    [][ op'.name = "build_levels" =>
            \A row \in crown_levels :
                row.data_type = "synth" => row \in crown_levels' ]_vars

\* C5 witness: build_levels ran while an observation of the tree mapped to
\* the level of a synth row.
C5_Witness ==
    /\ op.name = "build_levels"
    /\ op.levels # <<>>
    /\ \E row \in crown_levels :
           /\ row.data_type = "synth"
           /\ \E i \in 1..Len(crown_observations) :
                  /\ crown_observations[i].tree_id = row.tree_id
                  /\ crown_observations[i].obs_height # NULL
                  /\ _nearest_level(crown_observations[i].obs_height,
                                    sorted(op.levels)) = row.h_level

\* The fields a re-run must keep, for every row, and the number of rows.
SameRecords ==
    /\ Cardinality(crown_levels') = Cardinality(crown_levels)
    /\ \A row \in crown_levels :
           \E new \in crown_levels' :
               /\ new.level_id = row.level_id
               /\ new.tree_id = row.tree_id
               /\ new.h_level = row.h_level
               /\ new.data_type = row.data_type
               /\ new.source_obs_id = row.source_obs_id
               /\ new.mapping_error = row.mapping_error
               /\ new.synth_method = row.synth_method

\* C6: build_levels run again with the same grid right after a completed
\* run, or normalize_scale run again right after a completed run, keeps the
\* number of rows and every field but roi_norm_path.
C6_RerunIdempotent ==
    [][ ( \/ /\ op.name = "build_levels" /\ op.result >= 0
             /\ op'.name = "build_levels" /\ op'.levels = op.levels
          \/ /\ op.name = "normalize_scale" /\ op.result >= 0
             /\ op'.name = "normalize_scale" )
        => SameRecords ]_vars

\* C6 witness: every row of a build_levels run that wrote two rows or more
\* carried a normalized raster already: the run redid an earlier one.
C6_Witness ==
    /\ op.name = "build_levels"
    /\ op.result >= 2
    /\ \A row \in Written : row.roi_norm_path # NoPath

\* C7: _nearest_level returns a member of the list that no member is nearer
\* than, and the smallest of the equally near ones.
C7_NearestSmallestOnTie ==
    call.result # NULL =>
        /\ call.result \in Range(call.levels)
        /\ \A g \in Range(call.levels) :
               /\ Abs(call.obs_h - call.result) <= Abs(call.obs_h - g)
               /\ Abs(call.obs_h - g) = Abs(call.obs_h - call.result)
                      => call.result <= g

\* C7 witness: 7.5 m against the grid [5, 10] gave 5.
C7_Witness ==
    call = [obs_h |-> 75, levels |-> <<50, 100>>, result |-> 50]

\* The observations that compete for the cell of a row under the grid of
\* the last run, as positions in crown_observations.
Competitors(row) ==
    { i \in 1..Len(crown_observations) :
        /\ crown_observations[i].obs_height # NULL
        /\ crown_observations[i].tree_id = row.tree_id
        /\ _nearest_level(crown_observations[i].obs_height, sorted(op.levels))
               = row.h_level }

\* C8: the observation build_levels records for a cell has the smallest
\* error among those of the tree that map to the cell, and is the first read
\* among those with that error.
C8_SmallestErrorFirstSeen ==
    op.name = "build_levels" =>
        \A row \in Written :
            \E i \in Competitors(row) :
                /\ crown_observations[i].obs_id = row.source_obs_id
                /\ \A j \in Competitors(row) :
                       LET ei == Abs(crown_observations[i].obs_height - row.h_level)
                           ej == Abs(crown_observations[j].obs_height - row.h_level)
                       IN  ei < ej \/ (ei = ej /\ i <= j)

\* C8 witness: 5.3 m was read before 4.8 m, both of one tree on level 5, and
\* the row names the 4.8 m observation.
C8_Witness ==
    /\ op.name = "build_levels"
    /\ Len(crown_observations) >= 2
    /\ crown_observations[1].obs_height = 53
    /\ crown_observations[2].obs_height = 48
    /\ crown_observations[1].tree_id = crown_observations[2].tree_id
    /\ \E row \in Written : row.h_level = 50 /\ row.source_obs_id = 2

\* C9: build_levels with an empty grid raises before it opens the store, and
\* crown_levels is what it was.
C9_EmptyGridFailsFast ==
    [][ (op'.name = "build_levels" /\ op'.levels = <<>>) =>
            /\ op'.result = ValueError
            /\ ~op'.opened
            /\ crown_levels' = crown_levels ]_vars

\* C9 witness: the call was made on a store that held observations and rows.
C9_Witness ==
    /\ op.name = "build_levels"
    /\ op.levels = <<>>
    /\ op.result = ValueError
    /\ crown_levels # {}
    /\ ObsWithHeight(crown_observations) # <<>>

\* C10 as claimed: the synthesizer and the exporter called with an empty grid
\* raise a configuration error before any store interaction.
C10_EmptyGridRaises ==
    (op.name \in {"synthesize_missing_levels", "export_pix2pix_pairs"}
        /\ op.levels = <<>>)
    => (op.result = ValueError /\ ~op.opened)

\* The new row differs from the old one in roi_norm_path at most.
SameButPath(old, new) ==
    /\ new.level_id = old.level_id
    /\ new.tree_id = old.tree_id
    /\ new.h_level = old.h_level
    /\ new.data_type = old.data_type
    /\ new.source_obs_id = old.source_obs_id
    /\ new.mapping_error = old.mapping_error
    /\ new.synth_method = old.synth_method

\* C11: a normalize_scale run creates and deletes no LevelRecord, leaves
\* every synth record as it was, and changes no field of a real record but
\* roi_norm_path.
C11_NormalizeFrame ==
    [][ op'.name = "normalize_scale" =>
            /\ { row.level_id : row \in crown_levels' }
                   = { row.level_id : row \in crown_levels }
            /\ Cardinality(crown_levels') = Cardinality(crown_levels)
            /\ \A old \in crown_levels :
                   /\ old.data_type = "synth" => old \in crown_levels'
                   /\ \E new \in crown_levels' : SameButPath(old, new) ]_vars

\* C11 witness: normalize_scale wrote the path of a real row in a table that
\* also holds a synth row.
C11_Witness ==
    /\ op.name = "normalize_scale"
    /\ op.result >= 1
    /\ \E row \in crown_levels : row.data_type = "synth"
    /\ \E row \in Written : row.data_type = "real" /\ row.roi_norm_path # NoPath

\* A real row normalize_scale cannot work on: no source_obs_id, a
\* source_obs_id no observation has, or a raw crop that cannot be read.
Unusable(row) ==
    \/ row.source_obs_id = NULL
    \/ SourceOf(row) = {}
    \/ \E o \in SourceOf(row) : ~o.raw_ok

\* The rows a run with the given only_missing has to write.
ToNormalize(only_missing) ==
    { row \in crown_levels :
        /\ row.data_type = "real"
        /\ ~Unusable(row)
        /\ only_missing => row.roi_norm_path = NoPath }

C13_EncodeFailureSkipsItem ==
    op.name \in {"normalize_scale", "synthesize_missing_levels", "export_pix2pix_pairs"}
        => op.result # RuntimeError

\* The evidence levels of a tree: its real rows that have a normalized raster.
Evidence(tree_id) ==
    { row \in crown_levels :
        row.tree_id = tree_id /\ row.data_type = "real" /\ row.roi_norm_path # NoPath }

EvidenceBelow(tree_id, t) == { row \in Evidence(tree_id) : row.h_level < t }
EvidenceAbove(tree_id, t) == { row \in Evidence(tree_id) : row.h_level > t }

\* C14: a synth row the synthesizer wrote for target t is a nearest_copy
\* exactly when the evidence levels of its tree do not lie on both sides of
\* t, and a linear_blend otherwise.
C14_NearestCopyIffNoBracket ==
    op.name = "synthesize_missing_levels" =>
        \A row \in Written :
            /\ row.data_type = "synth"
            /\ row.synth_method =
                   IF /\ EvidenceBelow(row.tree_id, row.h_level) # {}
                      /\ EvidenceAbove(row.tree_id, row.h_level) # {}
                   THEN "linear_blend" ELSE "nearest_copy"

\* C14 witness: one run wrote a nearest_copy row and a linear_blend row.
C14_Witness ==
    /\ op.name = "synthesize_missing_levels"
    /\ \E a, b \in Written :
           a.synth_method = "nearest_copy" /\ b.synth_method = "linear_blend"

\* The raster stored under a path of roi_norm_dir.
RasterAt(path) == (CHOOSE f \in roi_norm_files : f.path = path).img

\* The evidence row just below and the one just above a target.
LowOf(tree_id, t) ==
    CHOOSE row \in EvidenceBelow(tree_id, t) :
        \A other \in EvidenceBelow(tree_id, t) : other.h_level <= row.h_level
HighOf(tree_id, t) ==
    CHOOSE row \in EvidenceAbove(tree_id, t) :
        \A other \in EvidenceAbove(tree_id, t) : row.h_level <= other.h_level

\* C15: a linear_blend row for target t mixes the raster of the greatest
\* evidence level below t with the raster of the smallest evidence level
\* above t, with weight (t - low) / (high - low), which lies in [0, 1].
C15_BlendOfNearestBracket ==
    op.name = "synthesize_missing_levels" =>
        \A row \in { r \in Written : r.synth_method = "linear_blend" } :
            /\ EvidenceBelow(row.tree_id, row.h_level) # {}
            /\ EvidenceAbove(row.tree_id, row.h_level) # {}
            /\ LET low  == LowOf(row.tree_id, row.h_level)
                   high == HighOf(row.tree_id, row.h_level)
                   img  == RasterAt(row.roi_norm_path)
               IN  /\ low.h_level < row.h_level /\ row.h_level < high.h_level
                   /\ img = << RasterAt(low.roi_norm_path)[1],
                               RasterAt(high.roi_norm_path)[1],
                               row.h_level - low.h_level,
                               high.h_level - low.h_level >>
                   /\ 0 <= img[3] /\ img[3] <= img[4] /\ img[4] > 0

\* C15 witness: a tree with evidence at 0, 5 and 15 m got its 10 m level as
\* the blend of 5 m and 15 m with weight 1/2.
C15_Witness ==
    /\ op.name = "synthesize_missing_levels"
    /\ { row.h_level : row \in Evidence("t1") } = {0, 50, 150}
    /\ \E row \in Written :
           /\ row.tree_id = "t1" /\ row.h_level = 100
           /\ row.synth_method = "linear_blend"
           /\ RasterAt(row.roi_norm_path)[3] = 50
           /\ RasterAt(row.roi_norm_path)[4] = 100

\* C16: a nearest_copy row for target t holds a copy of the raster of the
\* evidence level nearest to t, the smaller level when two are equally near.
C16_CopyOfNearest ==
    op.name = "synthesize_missing_levels" =>
        \A row \in { r \in Written : r.synth_method = "nearest_copy" } :
            \E near \in Evidence(row.tree_id) :
                /\ \A other \in Evidence(row.tree_id) :
                       LET dn == Abs(row.h_level - near.h_level)
                           do == Abs(row.h_level - other.h_level)
                       IN  dn < do \/ (dn = do /\ near.h_level <= other.h_level)
                /\ RasterAt(row.roi_norm_path) = RasterAt(near.roi_norm_path)

\* C16 witness: a tree with evidence at 0, 5 and 15 m, asked for 20 m by a
\* restriction, got a nearest_copy row at 20 m that copies the 15 m raster.
C16_Witness ==
    /\ op.name = "synthesize_missing_levels"
    /\ op.fill.given /\ op.fill.levels = <<200>>
    /\ { row.h_level : row \in Evidence("t1") } = {0, 50, 150}
    /\ \E row \in Written, src \in Evidence("t1") :
           /\ row.tree_id = "t1" /\ row.h_level = 200
           /\ row.synth_method = "nearest_copy"
           /\ src.h_level = 150
           /\ RasterAt(row.roi_norm_path) = RasterAt(src.roi_norm_path)

\* The same call made once more on the store a run has left.
SecondRun(c, fault) ==
    SynthRun(c.levels_grid, c.only_tree_id, c.fill_only_levels,
             c.overwrite_existing_synth, fault.unreadable, fault.enc_ok,
             crown_levels', roi_norm_files')

\* C17: a run of the synthesizer leaves every real row as it was; without
\* overwrite_existing_synth it also leaves every synth row it found as it
\* was, and the same call made again after it has completed writes nothing
\* and returns 0.
C17_RealKeptSynthOnOverwrite ==
    [][ \A c \in SynthEvidenceCalls, fault \in EvidenceFaults(roi_norm_files) :
          ( /\ op'.name = "synthesize_missing_levels"
            /\ op'.fill = c.fill_only_levels
            /\ synthesize_missing_levels(c.levels_grid, c.only_tree_id,
                   c.fill_only_levels, c.overwrite_existing_synth,
                   fault.unreadable, fault.enc_ok) )
          => /\ \A row \in crown_levels : row.data_type = "real" => row \in crown_levels'
             /\ ~c.overwrite_existing_synth =>
                    /\ \A row \in crown_levels : row \in crown_levels'
                    /\ op'.result >= 0 =>
                           \A again \in { SecondRun(c, fault) } :
                               /\ again.result = 0
                               /\ again.tbl = crown_levels'
                               /\ again.files = roi_norm_files' ]_vars

\* C17 witness: a run over the grid returned 0 and wrote nothing on a store
\* that holds synth rows of an earlier run, a real row with a raster and a
\* real row without one.
C17_Witness ==
    /\ op.name = "synthesize_missing_levels"
    /\ ~op.fill.given
    /\ op.result = 0 /\ op.written = {}
    /\ \E row \in crown_levels : row.data_type = "synth"
    /\ \E row \in crown_levels : row.data_type = "real" /\ row.roi_norm_path = NoPath
    /\ Evidence("t1") # {}

\* C18: export_pix2pix_pairs called with ratios that do not sum to 1 raises
\* before it touches anything: no directory, file or manifest is made or
\* changed, and the store is not opened.
C18_BadRatiosFailFirst ==
    [][ \A c \in ExportCalls, fault \in ExportFaults(roi_norm_files) :
          ( /\ op'.name = "export_pix2pix_pairs"
            /\ c.train_ratio + c.val_ratio + c.test_ratio # 1000
            /\ export_pix2pix_pairs(c, fault) )
          => /\ op'.result = ValueError
             /\ ~op'.opened
             /\ dirs' = dirs
             /\ out_files' = out_files
             /\ manifest' = manifest ]_vars

\* C18 witness: the call was refused on a store that holds a pair to export,
\* before any output directory existed.
C18_Witness ==
    /\ op.name = "export_pix2pix_pairs"
    /\ op.result = ValueError
    /\ ~op.opened
    /\ dirs \cap OutDirs = {}
    /\ \E a, b \in ExportRows(crown_levels, "") :
           a.tree_id = b.tree_id /\ a.h_level = 50 /\ b.h_level = 100

\* The trees that have a candidate pair under the grid of the last run: real
\* normalized rows on two neighbouring grid levels.
TreesWithPairs ==
    LET levels_sorted == sorted(op.levels)
        has(t, h) == \E row \in ExportRows(crown_levels, "") :
                         row.tree_id = t /\ row.h_level = h
    IN  { t \in Range(TreeOrder) :
            \E i \in 1..(Len(levels_sorted) - 1) :
                has(t, levels_sorted[i]) /\ has(t, levels_sorted[i + 1]) }

\* C19 as claimed: the train, val and test sets of a run are pairwise
\* disjoint and together are exactly the trees with a candidate pair, n of
\* them; a tree with real normalized data but no pair is in none of the sets.
C19_PartitionOfPairTrees ==
    (op.name = "export_pix2pix_pairs" /\ op.opened) =>
        /\ op.parts.train \cap op.parts.val = {}
        /\ op.parts.train \cap op.parts.test = {}
        /\ op.parts.val \cap op.parts.test = {}
        /\ op.parts.train \cup op.parts.val \cup op.parts.test = TreesWithPairs
        /\ Cardinality(op.parts.train) + Cardinality(op.parts.val)
               + Cardinality(op.parts.test) = Cardinality(TreesWithPairs)

\* k is Python's round(n * ratio), a half going to the even neighbour, for a
\* ratio in thousandths.
IsRound(k, n, ratio) ==
    /\ Abs(1000 * k - n * ratio) <= 500
    /\ Abs(1000 * k - n * ratio) = 500 => k % 2 = 0

Min(a, b) == IF a < b THEN a ELSE b

\* The sizes of the three sets of the run that has just been made.
NTrain == Cardinality(op'.parts.train)
NVal   == Cardinality(op'.parts.val)
NTest  == Cardinality(op'.parts.test)

C21_SplitDeterministic ==
    [][ \A c \in PairCalls, fault \in RowOrders :
          (op'.name = "export_pix2pix_pairs" /\ op'.result >= 1
              /\ export_pix2pix_pairs(c, fault))
          => /\ \A other \in RowOrders :
                   \A again \in { ExportRun(c, other, crown_levels', roi_norm_files',
                                            dirs', out_files', manifest') } :
                       /\ again.parts = op'.parts
                       /\ again.manifest = manifest'
                       /\ again.result = op'.result
             /\ ( /\ op'.result = 10
                  /\ Cardinality({ row.tree_id : row \in ExportRows(crown_levels, "") }) = 10
                  /\ c.train_ratio = 800 /\ c.val_ratio = 100 /\ c.test_ratio = 100 )
                => (NTrain = 8 /\ NVal = 1 /\ NTest = 1) ]_vars

\* C21 witness: ten trees were split 8/1/1 and a pair of each was exported.
C21_Witness ==
    /\ op.name = "export_pix2pix_pairs"
    /\ op.result = 10
    /\ Cardinality(op.parts.train) = 8
    /\ Cardinality(op.parts.val) = 1
    /\ Cardinality(op.parts.test) = 1
    /\ Len(manifest) = 11

\* The tree has a real record with a normalized raster at the level.
RealNormalized(tree_id, h) ==
    \E row \in crown_levels :
        /\ row.tree_id = tree_id /\ row.h_level = h
        /\ row.data_type = "real" /\ row.roi_norm_path # NoPath

\* The pairs a call has to emit: two grid values with none between them, the
\* tree (the one asked for, when one is) real and normalized at both.
CandidatePairs(c) ==
    { p \in Range(TreeOrder) \X Range(c.levels_grid) \X Range(c.levels_grid) :
        /\ p[2] < p[3]
        /\ \A h \in Range(c.levels_grid) : ~(p[2] < h /\ h < p[3])
        /\ RealNormalized(p[1], p[2]) /\ RealNormalized(p[1], p[3])
        /\ (c.only_tree_id # "" => p[1] = c.only_tree_id) }

\* The pairs the manifest lists after the step.
Emitted == { <<manifest'[i].tree_id, manifest'[i].h_in, manifest'[i].h_out>> :
                i \in 2..Len(manifest') }

\* C22: an export that reads and saves every raster emits exactly the pairs
\* (tree, h_in, h_out) of neighbouring grid values, h_in < h_out, at which the
\* tree has real records with a normalized raster, one manifest row each;
\* a synth record is never an endpoint, whatever the synthesizer did before.
\* With no such pair the run returns 0 and writes nothing.
C22_PairsOfRealNeighbours ==
    [][ \A c \in EndpointCalls :
          (op'.name = "export_pix2pix_pairs" /\ op'.opened
              /\ op'.levels = c.levels_grid
              /\ export_pix2pix_pairs(c, NoExportFault))
          => \A candidates \in { CandidatePairs(c) } :
                IF candidates = {}
                THEN op'.result = 0 /\ manifest' = manifest /\ out_files' = out_files
                ELSE /\ Emitted = candidates
                     /\ Len(manifest') = 1 + Cardinality(candidates)
                     /\ op'.result = Cardinality(candidates) ]_vars

\* C22 witness: t1 is real at 0, 5 and 15 m and has a synth record with a
\* raster at 10 m; the export on the grid [0, 5, 10, 15] emitted the pair
\* (0, 5) of t1 and no other.
C22_Witness ==
    /\ op.name = "export_pix2pix_pairs"
    /\ op.opened
    /\ op.levels = EvidenceGrid
    /\ op.result = 1
    /\ RealNormalized("t1", 0) /\ RealNormalized("t1", 50) /\ RealNormalized("t1", 150)
    /\ \E row \in crown_levels :
           /\ row.tree_id = "t1" /\ row.h_level = 100
           /\ row.data_type = "synth" /\ row.roi_norm_path # NoPath

\* The raster path stored for a real normalized level of a tree.
PathOf(tree_id, h) ==
    (CHOOSE row \in crown_levels :
        /\ row.tree_id = tree_id /\ row.h_level = h
        /\ row.data_type = "real" /\ row.roi_norm_path # NoPath).roi_norm_path

\* A candidate pair the export has to skip: a side that cannot be decoded, or
\* sides of different sizes.
SkippedPair(p, fault) ==
    \/ PathOf(p[1], p[2]) \in fault.unreadable
    \/ PathOf(p[1], p[3]) \in fault.unreadable
    \/ (PathOf(p[1], p[2]) \in fault.odd_size) # (PathOf(p[1], p[3]) \in fault.odd_size)

\* The files of a pair under out_dir after the step, and before it.
PairFilesAfter(p) ==
    { f \in out_files' :
        f.path.name = PairName([tree_id |-> p[1], h_in |-> p[2], h_out |-> p[3]]) }
PairFilesBefore(p) ==
    { f \in out_files :
        f.path.name = PairName([tree_id |-> p[1], h_in |-> p[2], h_out |-> p[3]]) }

StoreUnchanged ==
    crown_observations' = crown_observations /\ crown_levels' = crown_levels

\* C24: an operation that finds no work returns 0, raises nothing and leaves
\* every Observation and LevelRecord as it was: build_levels (on a grid that
\* is not empty) with no observation carrying an altitude, normalize_scale
\* with no real record, the synthesizer with an empty levels table, and an
\* export with accepted arguments that finds no real normalized record or no
\* complete pair of neighbours.
C24_NoWorkReturnsZero ==
    [][ /\ ( /\ op'.name = "build_levels" /\ op'.levels # <<>>
             /\ \A i \in 1..Len(crown_observations) :
                    crown_observations[i].obs_height = NULL )
           => (op'.result = 0 /\ StoreUnchanged)
        /\ ( /\ op'.name = "normalize_scale"
             /\ \A row \in crown_levels : row.data_type # "real" )
           => (op'.result = 0 /\ StoreUnchanged)
        /\ (op'.name = "synthesize_missing_levels" /\ crown_levels = {})
           => (op'.result = 0 /\ StoreUnchanged)
        /\ \A c \in ExportCalls :
              ( /\ op'.name = "export_pix2pix_pairs"
                /\ op'.opened /\ op'.levels = c.levels_grid
                /\ c.train_ratio + c.val_ratio + c.test_ratio = 1000
                /\ c.pair_mode = "neighbors"
                /\ CandidatePairs(c) = {}
                /\ \E fault \in ExportFaults(roi_norm_files) :
                       export_pix2pix_pairs(c, fault) )
              => (op'.result = 0 /\ StoreUnchanged) ]_vars

\* C24 witness: build_levels ran on a store whose only observations have no
\* altitude, returned 0 and left the levels table empty.
C24_Witness ==
    /\ op.name = "build_levels"
    /\ op.levels # <<>>
    /\ op.result = 0
    /\ Len(crown_observations) >= 1
    /\ \A i \in 1..Len(crown_observations) : crown_observations[i].obs_height = NULL
    /\ crown_levels = {}

\* C25 as claimed: pyramid_resize halves while the raster is more than twice
\* the target in either dimension, so when the loop has ended neither side of
\* the raster exceeds twice its target.
C25_HalvedInEitherDimension ==
    /\ (call.pc = "while" /\ (call.w > 2 * call.target_w \/ call.h > 2 * call.target_h))
          => ENABLED pyrDown
    /\ call.pc = "resize"
          => (call.w <= 2 * call.target_w /\ call.h <= 2 * call.target_h)

\* C26: the raster of every synth row a run wrote was made from rasters of
\* real rows of the same tree that have a normalized raster: a blend from two
\* of them, one below and one above the target, with the weight their levels
\* give, a copy from one of them; a synth row or a real row without raster is
\* never a source, and a tree without such evidence gets no row in the run.
C26_EvidenceIsRealNormalized ==
    op.name = "synthesize_missing_levels" =>
        \A row \in Written :
            /\ Evidence(row.tree_id) # {}
            /\ LET img == RasterAt(row.roi_norm_path)
               IN  IF row.synth_method = "linear_blend"
                   THEN \E lo \in EvidenceBelow(row.tree_id, row.h_level),
                           hi \in EvidenceAbove(row.tree_id, row.h_level) :
                            /\ img[1] = RasterAt(lo.roi_norm_path)[1]
                            /\ img[2] = RasterAt(hi.roi_norm_path)[1]
                            /\ img[3] = row.h_level - lo.h_level
                            /\ img[4] = hi.h_level - lo.h_level
                   ELSE \E src \in Evidence(row.tree_id) :
                            /\ img = RasterAt(src.roi_norm_path)
                            /\ \A other \in crown_levels :
                                  ( /\ other.tree_id = row.tree_id
                                    /\ other.roi_norm_path # NoPath
                                    /\ other.level_id \notin op.written
                                    /\ Abs(other.h_level - row.h_level)
                                          < Abs(src.h_level - row.h_level) )
                                  => other.data_type = "synth"

\* C26 witness: t1 has evidence at 0 and 15 m only and a synth row at 10 m
\* from an earlier run; this run made the 5 m level as a blend of 0 and 15 m.
C26_Witness ==
    /\ op.name = "synthesize_missing_levels"
    /\ { row.h_level : row \in Evidence("t1") } = {0, 150}
    /\ \E row \in Written :
           /\ row.tree_id = "t1" /\ row.h_level = 50
           /\ row.synth_method = "linear_blend"
           /\ RasterAt(row.roi_norm_path)[4] = 150
    /\ \E old \in crown_levels \ Written :
           /\ old.tree_id = "t1" /\ old.h_level = 100
           /\ old.data_type = "synth" /\ old.roi_norm_path # NoPath

\* C27 as claimed: after build_levels and normalize_scale (only_missing =
\* True) have run, in any number of rounds with observations added between
\* them, every real row with a roi_norm_path has a raster made from the raw
\* crop of the observation its source_obs_id names now.
C27_RasterOfCurrentSource ==
    op.name = "normalize_scale" =>
        \A row \in crown_levels :
            (row.data_type = "real" /\ row.roi_norm_path # NoPath)
                => RasterAt(row.roi_norm_path) = <<row.source_obs_id>>

\* C28 as claimed: right after a build_levels run every real row names an
\* observation that exists, belongs to the row's tree, has the row's level as
\* its nearest grid level (the smaller level on a tie) and has the smallest
\* error among the observations of the tree that map to that level, whatever
\* was deleted since the run before.
C28_SourceIsLiveWinner ==
    (op.name = "build_levels" /\ op.result >= 0) =>
        \A row \in { r \in crown_levels : r.data_type = "real" } :
            \E o \in SourceOf(row) :
                /\ o.tree_id = row.tree_id
                /\ o.obs_height # NULL
                /\ row.h_level \in Range(op.levels)
                /\ \A g \in Range(op.levels) :
                       \/ Abs(o.obs_height - row.h_level) < Abs(o.obs_height - g)
                       \/ ( /\ Abs(o.obs_height - row.h_level) = Abs(o.obs_height - g)
                            /\ row.h_level <= g )
                /\ row.mapping_error = Abs(o.obs_height - row.h_level)
                /\ \A i \in 1..Len(crown_observations) :
                       LET other == crown_observations[i]
                       IN  ( /\ other.tree_id = row.tree_id
                             /\ other.obs_height # NULL
                             /\ \A g \in Range(op.levels) :
                                    \/ Abs(other.obs_height - row.h_level)
                                          < Abs(other.obs_height - g)
                                    \/ ( /\ Abs(other.obs_height - row.h_level)
                                              = Abs(other.obs_height - g)
                                         /\ row.h_level <= g ) )
                           => row.mapping_error <= Abs(other.obs_height - row.h_level)

\* C29 as claimed: whatever exports were run into out_dir with one seed and
\* one triple of ratios while the eligible trees changed, the pair files
\* under out_dir keep every tree under one of train, val and test, and each
\* of them is described by a row of the manifest.csv that is there now.
C29_FilesAgreeWithManifest ==
    /\ \A f, g \in out_files :
           f.path.name[1] = g.path.name[1] => f.path.split = g.path.split
    /\ \A f \in out_files :
           \E i \in 2..Len(manifest) :
               manifest[i].split = f.path.split /\ manifest[i].name = f.path.name

\* C30: two writer runs that overlap (two build_levels runs, or build_levels
\* and synthesize_missing_levels) can leave two rows of crown_levels for one
\* (tree_id, h_level), while runs made one after the other leave at most one
\* row per cell: whenever no run started while another was in progress, the
\* committed table, and the table as each open transaction sees it, hold at
\* most one row per cell.
C30_SerialRunsKeepOneRecord ==
    (\A p \in Writers : ~sessions[p].overlapped) =>
        \A p \in Writers : \A a, b \in View(p) :
            (a.tree_id = b.tree_id /\ a.h_level = b.h_level) => a = b

\* C30 witness: a build_levels run and a synthesize_missing_levels run that
\* overlapped have both committed, and the table holds a real row and a synth
\* row of the same cell.
C30_Witness ==
    /\ \A p \in Writers : sessions[p].pc = "done" /\ sessions[p].result >= 0
    /\ \E p \in Writers : sessions[p].overlapped
    /\ { sessions[p].name : p \in Writers } =
            { "build_levels", "synthesize_missing_levels" }
    /\ \E a, b \in crown_levels :
            /\ a.tree_id = b.tree_id /\ a.h_level = b.h_level
            /\ a.data_type = "real" /\ b.data_type = "synth"

====
